---- MODULE Spec2Model ----
(***************************************************************************)
(* Backend task cancellation for LLM cost recommendations.                 *)
(*                                                                         *)
(* The Task Registry (backend/app/core/task_manager.py, TaskManager), the  *)
(* unauthenticated cancel endpoint (backend/app/main.py), and the          *)
(* cancellation-aware work loop that runs one external LLM call per        *)
(* resource (backend/app/ingestion/azure/llm_data_fetch.py).               *)
(*                                                                         *)
(* Every registry method runs its whole body under self._lock, so each     *)
(* method is one atomic action; the work loop is a sequence of steps that  *)
(* interleave with the registry methods.                                   *)
(***************************************************************************)
EXTENDS Integers, Sequences, FiniteSets, TLC

VARIABLES
    active_tasks,             \* TaskManager._active_tasks: task_id -> [project_id, status]
    cancelled_tasks,          \* TaskManager._cancelled_tasks: set of task ids
    pending_cancel_projects,  \* TaskManager._pending_cancel_projects: set of project ids
    response,                 \* value returned by the last registry call / endpoint
    hist,                     \* history of the calls made, read by the properties only
    loop,                     \* task_id -> state of the work loop started for that task
    page,                     \* state and refs of the recommendations page component
    net,                      \* requests of the page in flight, and its handlers awaiting them
    cache                     \* the llm_cache table and the analysis requests going through it

registryVars == <<active_tasks, cancelled_tasks, pending_cancel_projects>>
pageVars == <<page, net>>
backendVars == <<active_tasks, cancelled_tasks, pending_cancel_projects, response, hist, loop>>
vars == <<active_tasks, cancelled_tasks, pending_cancel_projects, response, hist, loop,
          page, net, cache>>

----------------------------------------------------------------------------
(* Bounds of the model *)

\* number of tasks ever created in a registry-only run
MaxTasks == 3
\* number of analysis runs (tasks with a work loop) in a run of the work loop
MaxRuns == 1
\* longest resource list of an analysis run
MaxResources == 2
\* number of calls of handleFetch and handleReset through the page's props
MaxClicks == 3
\* longest list of recommendations an analysis answers
MaxRecommendations == 2
\* the current day, as a day number; date fields hold day numbers
Today == 400
\* number of analysis requests going through the cache
MaxCacheRequests == 2
\* number of resources of the page's project
AppResources == 1
\* number of resource-ID requests of the filter bar unanswered at a time
MaxIdFetches == 1
\* the calendars offer the days from Today - DaysBack to tomorrow
DaysBack == 1
\* number of clicks on Run Analysis in the runs of the rendered page
MaxRunClicks == 2
\* number of analysis requests sent in the runs of the props
MaxPropRequests == 1
\* the calendars of the runs of the props pick the days from Today - PropDaysBack
\* to Today
PropDaysBack == 0

(* Values of the program *)

\* project ids as they appear in the URLs ("project 5" of the logs)
ProjectIds == {"5", "7"}
\* metadata without a project_id: (metadata or {}).get('project_id') is None
NoProject == "None"
\* the list of 101 VMs of the documented scenario
ScenarioResources == 101

NoOp == [op |-> "none", task |-> 0, count |-> 0, cancelled |-> FALSE]
NoResponse == [op |-> "none", status |-> "", project_id |-> "", cancelled_count |-> 0,
               task_id |-> 0]

----------------------------------------------------------------------------
(* Task Registry *)

TaskIds == DOMAIN active_tasks

\* str(uuid.uuid4()): an identifier no earlier task has
NewTaskId == Cardinality(TaskIds) + 1

\* an is_cancelled that never reports a cancellation
is_cancelled_Never(task_id) == FALSE

\* point-in-time read of a task's flag
is_cancelled(task_id) == task_id \in cancelled_tasks

\* a search that finds the active tasks of every project
ActiveTasksOf_AnyProject(project_id) ==
    {t \in TaskIds : active_tasks[t].status = "active"}

\* the tasks cancel_tasks_by_project finds: those of the project that are still active
ActiveTasksOf(project_id) ==
    {t \in TaskIds : /\ active_tasks[t].project_id = project_id
                     /\ active_tasks[t].status = "active"}

\* the registry after marking the tasks of set S cancelled
MarkCancelled(S) ==
    /\ cancelled_tasks' = cancelled_tasks \cup S
    /\ active_tasks' = [t \in TaskIds |->
                          IF t \in S THEN [active_tasks[t] EXCEPT !.status = "cancelled"]
                                     ELSE active_tasks[t]]

\* create_task with the assignment bug "_cancelled_tasks = {task_id}" for the add
create_task_Reset(project_id) ==
    LET task_id == NewTaskId
        pending == project_id # NoProject /\ project_id \in pending_cancel_projects
    IN  /\ active_tasks' =
              [t \in TaskIds \cup {task_id} |->
                  IF t = task_id
                  THEN [project_id |-> project_id,
                        status |-> IF pending THEN "cancelled" ELSE "active"]
                  ELSE active_tasks[t]]
        /\ cancelled_tasks' = IF pending THEN {task_id} ELSE cancelled_tasks
        /\ pending_cancel_projects' =
              IF pending THEN pending_cancel_projects \ {project_id}
                         ELSE pending_cancel_projects
        /\ response' = [NoResponse EXCEPT !.op = "create", !.task_id = task_id,
                                          !.project_id = project_id]

\* create_task that never looks at the pending-cancellation set
create_task_NoPending(project_id) ==
    LET task_id == NewTaskId
    IN  /\ active_tasks' =
              [t \in TaskIds \cup {task_id} |->
                  IF t = task_id
                  THEN [project_id |-> project_id, status |-> "active"]
                  ELSE active_tasks[t]]
        /\ UNCHANGED <<cancelled_tasks, pending_cancel_projects>>
        /\ response' = [NoResponse EXCEPT !.op = "create", !.task_id = task_id,
                                          !.project_id = project_id]

\* create_task that pre-cancels but leaves the pending entry in the set
create_task_KeepPending(project_id) ==
    LET task_id == NewTaskId
        pending == project_id # NoProject /\ project_id \in pending_cancel_projects
    IN  /\ active_tasks' =
              [t \in TaskIds \cup {task_id} |->
                  IF t = task_id
                  THEN [project_id |-> project_id,
                        status |-> IF pending THEN "cancelled" ELSE "active"]
                  ELSE active_tasks[t]]
        /\ cancelled_tasks' = IF pending THEN cancelled_tasks \cup {task_id}
                                         ELSE cancelled_tasks
        /\ UNCHANGED pending_cancel_projects
        /\ response' = [NoResponse EXCEPT !.op = "create", !.task_id = task_id,
                                          !.project_id = project_id]

\* create_task that sets the status of a pre-cancelled task but does not
\* add it to _cancelled_tasks
create_task_StatusOnly(project_id) ==
    LET task_id == NewTaskId
        pending == project_id # NoProject /\ project_id \in pending_cancel_projects
    IN  /\ active_tasks' =
              [t \in TaskIds \cup {task_id} |->
                  IF t = task_id
                  THEN [project_id |-> project_id,
                        status |-> IF pending THEN "cancelled" ELSE "active"]
                  ELSE active_tasks[t]]
        /\ UNCHANGED cancelled_tasks
        /\ pending_cancel_projects' =
              IF pending THEN pending_cancel_projects \ {project_id}
                         ELSE pending_cancel_projects
        /\ response' = [NoResponse EXCEPT !.op = "create", !.task_id = task_id,
                                          !.project_id = project_id]

\* TaskManager.create_task(task_type, metadata): the registry part
create_task(project_id) ==
    LET task_id == NewTaskId
        pending == project_id # NoProject /\ project_id \in pending_cancel_projects
    IN  /\ active_tasks' =
              [t \in TaskIds \cup {task_id} |->
                  IF t = task_id
                  THEN [project_id |-> project_id,
                        status |-> IF pending THEN "cancelled" ELSE "active"]
                  ELSE active_tasks[t]]
        /\ cancelled_tasks' = IF pending THEN cancelled_tasks \cup {task_id}
                                         ELSE cancelled_tasks
        /\ pending_cancel_projects' =
              IF pending THEN pending_cancel_projects \ {project_id}
                         ELSE pending_cancel_projects
        /\ response' = [NoResponse EXCEPT !.op = "create", !.task_id = task_id,
                                          !.project_id = project_id]

\* cancel_tasks_by_project that sets the pending flag whatever it found
cancel_tasks_by_project_AlwaysPending(project_id) ==
    LET found == ActiveTasksOf(project_id)
    IN  /\ MarkCancelled(found)
        /\ pending_cancel_projects' = pending_cancel_projects \cup {project_id}

\* TaskManager.cancel_tasks_by_project(project_id): the registry part; the
\* value it returns is CancelledCount(project_id)
cancel_tasks_by_project(project_id) ==
    LET found == ActiveTasksOf(project_id)
        cancelled_count == Cardinality(found)
    IN  /\ MarkCancelled(found)
        /\ pending_cancel_projects' =
              IF cancelled_count = 0 THEN pending_cancel_projects \cup {project_id}
                                     ELSE pending_cancel_projects

CancelledCount(project_id) == Cardinality(ActiveTasksOf(project_id))

\* the endpoint answering with a count of 0 whatever the registry returned
cancel_tasks_no_auth_ZeroCount(project_id) ==
    /\ cancel_tasks_by_project(project_id)
    /\ response' = [NoResponse EXCEPT !.op = "cancel", !.status = "success",
                                      !.project_id = project_id,
                                      !.cancelled_count = 0]

\* POST /cancel-tasks/{project_id}
cancel_tasks_no_auth(project_id) ==
    /\ cancel_tasks_by_project(project_id)
    /\ response' = [NoResponse EXCEPT !.op = "cancel", !.status = "success",
                                      !.project_id = project_id,
                                      !.cancelled_count = CancelledCount(project_id)]

\* a cancel by task id that cancels every active task of the task's project
cancel_task_WholeProject(task_id) ==
    /\ task_id \in TaskIds
    /\ MarkCancelled({task_id} \cup ActiveTasksOf(active_tasks[task_id].project_id))
    /\ UNCHANGED pending_cancel_projects
    /\ response' = [NoResponse EXCEPT !.op = "cancel_task", !.status = "success",
                                      !.task_id = task_id]

\* POST /llm/tasks/{task_id}/cancel: TaskManager.cancel_task(task_id)
cancel_task(task_id) ==
    /\ task_id \in TaskIds
    /\ MarkCancelled({task_id})
    /\ UNCHANGED pending_cancel_projects
    /\ response' = [NoResponse EXCEPT !.op = "cancel_task", !.status = "success",
                                      !.task_id = task_id]

----------------------------------------------------------------------------
(* History of the calls: what was called last, per project the last          *)
(* create / cancel-by-project with what it returned, the projects a           *)
(* cancel-by-project was ever called for, the tasks cancelled at creation.    *)

NoCall == [op |-> "none", project_id |-> "", task_id |-> 0]

Called(op, project_id, task_id) ==
    [op |-> op, project_id |-> project_id, task_id |-> task_id]

RecordCreate(project_id) ==
    LET task_id == NewTaskId
        born_cancelled == task_id \in cancelled_tasks'
    IN  hist' = [hist EXCEPT
            !.call = Called("create", project_id, task_id),
            !.last = IF project_id = NoProject THEN @
                     ELSE [@ EXCEPT ![project_id] =
                             [op |-> "create", task |-> task_id, count |-> 0,
                              cancelled |-> born_cancelled]],
            !.precancelled = IF born_cancelled THEN @ \cup {task_id} ELSE @]

RecordCancel(project_id) ==
    hist' = [hist EXCEPT
        !.call = Called("cancel", project_id, 0),
        !.last = [@ EXCEPT ![project_id] =
                    [op |-> "cancel", task |-> 0,
                     count |-> Cardinality(cancelled_tasks' \ cancelled_tasks),
                     cancelled |-> FALSE]],
        !.cancel_seen = @ \cup {project_id}]

RecordCancelTask(task_id) ==
    hist' = [hist EXCEPT !.call = Called("cancel_task", "", task_id)]

----------------------------------------------------------------------------
(* Cancellation-aware work loop: one entry of loop per analysis run.         *)
(*   total, i   the length of the resource list and the index of the loop    *)
(*   pc         "check": at the top of the iteration, before is_cancelled    *)
(*              "precall": resource data fetched, before the second check    *)
(*              "checked": the second check passed, the call not yet started *)
(*              "call": the external LLM call for index i is in flight       *)
(*              "done": the loop has ended                                   *)
(*   calls      the indices an external call was started for                 *)
(*   results    the indices whose recommendation was recorded                *)
(*   stopped    the loop ended because it found the task cancelled           *)
(*   report     <<k, N>> of "Processed k/N", once the loop has ended         *)
(*   single     the run targets one resource id (run_llm_vm / run_llm_storage  *)
(*              called for that resource) instead of the project's list      *)
(*   call_log   the indices of the external calls in the order they started  *)
(*   failed     the indices whose external call raised                       *)
(* and history fields read by the properties only:                           *)
(*   flag_at        how many resources the loop had started a call for, or   *)
(*                  passed both checks for, when the task's cancelled flag   *)
(*                  was set (-1: not set)                                    *)
(*   calls_at_flag  how many calls had been started at that moment           *)
(*   cancel_during  a cancel for the task or its project was called after    *)
(*                  the task was created                                     *)
(*   flag_pc        where the loop stood when the flag was set ("": not set, *)
(*                  "start": the task was created cancelled)                 *)

TasksOf(project_id) == {t \in TaskIds : active_tasks[t].project_id = project_id}

ResourceCounts == (0..MaxResources) \cup {ScenarioResources}

NewLoop(total, born_cancelled, single) ==
    [total |-> total, i |-> 0, pc |-> "check", calls |-> {}, results |-> {},
     stopped |-> FALSE, report |-> <<>>,
     single |-> single, call_log |-> <<>>, failed |-> {},
     flag_at |-> IF born_cancelled THEN 0 ELSE -1, cancel_during |-> FALSE,
     calls_at_flag |-> IF born_cancelled THEN 0 ELSE -1,
     flag_pc |-> IF born_cancelled THEN "start" ELSE ""]

\* history: the tasks of `flagged` got their flag now, those of `targeted`
\* were the target of a cancel call
NoteCancel(flagged, targeted) ==
    loop' = [t \in DOMAIN loop |->
                [loop[t] EXCEPT
                    !.flag_at = IF t \in flagged /\ @ = -1
                                THEN Cardinality(loop[t].calls)
                                     + (IF loop[t].pc = "checked" THEN 1 ELSE 0)
                                ELSE @,
                    !.calls_at_flag = IF t \in flagged /\ @ = -1
                                      THEN Cardinality(loop[t].calls) ELSE @,
                    !.flag_pc = IF t \in flagged /\ @ = "" THEN loop[t].pc ELSE @,
                    !.cancel_during = @ \/ t \in targeted]]

\* the outcomes of the external call: it returns a recommendation (TRUE) or
\* raises (FALSE); the calls of the documented 101-VM run succeed
Outcomes(task_id) ==
    IF loop[task_id].total = ScenarioResources THEN {TRUE} ELSE BOOLEAN

\* the loop ends and reports how many resources it processed
EndLoop(task_id, by_cancel) ==
    loop' = [loop EXCEPT ![task_id] =
                [@ EXCEPT !.pc = "done", !.stopped = by_cancel,
                          !.report = <<loop[task_id].i, loop[task_id].total>>]]

\* for each resource: check is_cancelled(task_id); if true, stop iterating
\* and report partial progress
LoopCheck(task_id) ==
    /\ task_id \in DOMAIN loop
    /\ loop[task_id].pc = "check"
    /\ IF loop[task_id].i = loop[task_id].total
       THEN EndLoop(task_id, FALSE)
       ELSE IF is_cancelled(task_id)
            THEN EndLoop(task_id, TRUE)
            ELSE loop' = [loop EXCEPT ![task_id].pc = "precall"]
    /\ UNCHANGED <<registryVars, response, hist, pageVars, cache>>

\* the second check without the read of the cancelled flag
LoopCheckBeforeCall_NoCheck(task_id) ==
    /\ task_id \in DOMAIN loop
    /\ loop[task_id].pc = "precall"
    /\ loop' = [loop EXCEPT ![task_id].pc = "checked"]
    /\ UNCHANGED <<registryVars, response, hist, pageVars, cache>>

\* check cancellation again before calling the expensive LLM
LoopCheckBeforeCall(task_id) ==
    /\ task_id \in DOMAIN loop
    /\ loop[task_id].pc = "precall"
    /\ IF is_cancelled(task_id)
       THEN EndLoop(task_id, TRUE)
       ELSE loop' = [loop EXCEPT ![task_id].pc = "checked"]
    /\ UNCHANGED <<registryVars, response, hist, pageVars, cache>>

\* the external call for the resource at index i is started
StartExternalCall(task_id) ==
    /\ task_id \in DOMAIN loop
    /\ loop[task_id].pc = "checked"
    /\ loop' = [loop EXCEPT ![task_id] =
                   [@ EXCEPT !.pc = "call", !.calls = @ \cup {loop[task_id].i},
                             !.call_log = Append(@, loop[task_id].i)]]
    /\ UNCHANGED <<registryVars, response, hist, pageVars, cache>>

\* an external call whose error ends the whole loop
ExternalCallReturns_AbortOnError(task_id, ok) ==
    /\ task_id \in DOMAIN loop
    /\ loop[task_id].pc = "call"
    /\ loop' = [loop EXCEPT ![task_id] =
                   [@ EXCEPT !.pc = IF ok THEN "check" ELSE "done",
                             !.i = @ + 1,
                             !.report = IF ok THEN @
                                        ELSE <<loop[task_id].i, loop[task_id].total>>,
                             !.results = IF ok THEN @ \cup {loop[task_id].i} ELSE @,
                             !.failed = IF ok THEN @ ELSE @ \cup {loop[task_id].i}]]
    /\ UNCHANGED <<registryVars, response, hist, pageVars, cache>>

\* the external call returns: its result is recorded, or its error is logged
\* and the resource skipped; either way the loop goes to the next resource
ExternalCallReturns(task_id, ok) ==
    /\ task_id \in DOMAIN loop
    /\ loop[task_id].pc = "call"
    /\ loop' = [loop EXCEPT ![task_id] =
                   [@ EXCEPT !.pc = "check", !.i = @ + 1,
                             !.results = IF ok THEN @ \cup {loop[task_id].i} ELSE @,
                             !.failed = IF ok THEN @ ELSE @ \cup {loop[task_id].i}]]
    /\ UNCHANGED <<registryVars, response, hist, pageVars, cache>>

\* a run that answers a cancellation with an error instead of its results
Returned_ErrorOnCancel(task_id) ==
    IF loop[task_id].stopped
    THEN [kind |-> "error", items |-> {}]
    ELSE [kind |-> IF loop[task_id].single THEN "object" ELSE "array",
          items |-> loop[task_id].results]

\* what a finished run returns: with a resource id the single recommendation
\* (None when the function returned at one of its cancellation checks; an
\* exception of the call is not caught in the lines of run_llm_vm shown),
\* without one the list of the recommendations recorded
Returned(task_id) ==
    IF loop[task_id].single
    THEN IF 0 \in loop[task_id].results
         THEN [kind |-> "object", items |-> {0}]
         ELSE IF 0 \in loop[task_id].failed
              THEN [kind |-> "error", items |-> {}]
              ELSE [kind |-> "none", items |-> {}]
    ELSE [kind |-> "array", items |-> loop[task_id].results]

----------------------------------------------------------------------------
(* The recommendations page (page.tsx).                                      *)
(* page holds the component's state and refs under their names; a date is a  *)
(* day number and NoDate is undefined, NoTaskId is a null task id, NoError a  *)
(* null error. A list of recommendations is a sequence whose items name the   *)
(* analysis request that returned them.                                       *)
(* net holds what is in flight:                                               *)
(*   fetches  the analysis requests sent by handleFetch, in order: the        *)
(*            generation the handler captured (thisGeneration) and whether    *)
(*            the request is "pending", "resolved" or "rejected", for the     *)
(*            properties whether its answer was applied to the page, and      *)
(*            while it is pending the filters it carries                      *)
(*   cancels  the requests sent by cancelBackendTask, in order: who awaits    *)
(*            it ("reset": handleReset, "fetch": nobody), the generation at   *)
(*            the click, its state ("pending" or how it settled), and for    *)
(*            the properties whether handleReset cleared the UI after it      *)
(*   fetch_calls, reset_calls  how often each handler was called (history)    *)
(*   invalid  for the properties: what was missing from the filters in the   *)
(*            calls of handleFetch that returned at the validation ("type",   *)
(*            "dates" for both dates, "start", "end")                         *)
(*   id_fetches      the resource-ID requests of the filter bar's effect      *)
(*                   that have not ended yet, in the order they were sent:    *)
(*                   the resource type asked for, and for the properties      *)
(*                   whether the change of the filters that sent the request  *)
(*                   cleared a chosen resource id                             *)
(*   timers          the setTimeout callbacks of the carousel not yet run, in *)
(*                   the order they were set: the kind of callback, and what  *)
(*                   its closure captured (recommendations.length for "next", *)
(*                   the index for "dot")                                     *)
(*   arrived         for each analysis request that has reached the backend,  *)
(*                   the task the endpoint created for it                     *)
(*   cancel_arrived  for each cancel request that has reached the backend,    *)
(*                   the tasks it marked cancelled                            *)

NoDate == 0
NoTaskId == 0
NoError == ""

\* AZURE_RESOURCES: the display names of the resource types offered
AZURE_RESOURCES == <<"VM", "Storage">>

DateRangePresets ==
    {"today", "yesterday", "last_week", "last_month", "last_6_months", "last_year",
     "custom"}

\* calculateDateRange(preset): the range of a preset counted back from the
\* current day, null (both dates NoDate) for 'custom'
calculateDateRange(preset) ==
    CASE preset = "today"         -> [startDate |-> Today, endDate |-> Today]
      [] preset = "yesterday"     -> [startDate |-> Today - 1, endDate |-> Today - 1]
      [] preset = "last_week"     -> [startDate |-> Today - 7, endDate |-> Today]
      [] preset = "last_month"    -> [startDate |-> Today - 30, endDate |-> Today]
      [] preset = "last_6_months" -> [startDate |-> Today - 180, endDate |-> Today]
      [] preset = "last_year"     -> [startDate |-> Today - 365, endDate |-> Today]
      [] OTHER                    -> [startDate |-> NoDate, endDate |-> NoDate]

\* the value useState(filters) starts with and handleReset sets
DefaultFilters ==
    [resourceType |-> IF Len(AZURE_RESOURCES) > 0 THEN AZURE_RESOURCES[1] ELSE "",
     resourceId |-> "",
     resourceIdEnabled |-> FALSE,
     dateRangePreset |-> "last_month",
     startDate |-> NoDate,
     endDate |-> NoDate]

InitialPage ==
    [recommendations |-> <<>>,
     currentIndex |-> 0,
     isLoading |-> FALSE,
     error |-> NoError,
     isTransitioning |-> FALSE,
     filters |-> DefaultFilters,
     generationRef |-> 0,
     currentTaskIdRef |-> NoTaskId,
     resourceIds |-> {},
     loadingResourceIds |-> FALSE]

InitialNet ==
    [fetches |-> <<>>, cancels |-> <<>>, fetch_calls |-> 0, reset_calls |-> 0,
     invalid |-> {},
     arrived |-> <<>>, cancel_arrived |-> <<>>, timers |-> <<>>,
     id_fetches |-> <<>>]

\* useParams().projectName: the project of the page, sent with every request
projectId == "5"
\* useParams().cloudPlatform of the Azure dashboard's route
cloudPlatform == "azure"

\* the outcomes of a request of the page: a 2xx answer, another status, or
\* no answer at all (backend offline)
RequestOutcomes == {"ok", "http_error", "network_error"}

\* cancelBackendTask sends its request: one more entry of net.cancels
SendCancel(cancels, by, generation) ==
    Append(cancels, [by |-> by, gen |-> generation, state |-> "pending",
                     cleared |-> FALSE])

\* a preset change that leaves the dates of the previous range
handleDateRangePresetChange_KeepDates(preset) ==
    /\ page' = [page EXCEPT !.filters = [@ EXCEPT !.dateRangePreset = preset]]
    /\ UNCHANGED net

\* RecommendationFilterBar: handleDateRangePresetChange(preset)
handleDateRangePresetChange(preset) ==
    /\ page' = [page EXCEPT
                  !.filters = [@ EXCEPT !.dateRangePreset = preset,
                                        !.startDate = calculateDateRange(preset).startDate,
                                        !.endDate = calculateDateRange(preset).endDate]]
    /\ UNCHANGED net

\* RecommendationFilterBar's useEffect runs after a render in which one of
\* its dependencies changed: the resource type or the toggle (projectId,
\* cloudPlatform and resourceOptions never change)
EffectRuns(old, new) ==
    \/ old.resourceType # new.resourceType
    \/ old.resourceIdEnabled # new.resourceIdEnabled

\* the effect goes past its guard and calls fetchResourceIds
EffectFetches(new) == new.resourceType # "" /\ new.resourceIdEnabled

\* setFilters(new) by a control of the filter bar, and the effect that the
\* following render runs: with no resource type or the toggle off it empties
\* the list, otherwise it sets loadingResourceIds and sends the request
SetFilters(new) ==
    LET runs == EffectRuns(page.filters, new)
        fetches == runs /\ EffectFetches(new)
    IN  /\ page' = [page EXCEPT
                      !.filters = new,
                      !.resourceIds = IF runs /\ ~fetches THEN {} ELSE @,
                      !.loadingResourceIds = IF fetches THEN TRUE ELSE @]
        /\ net' = [net EXCEPT
                     !.id_fetches =
                         IF fetches
                         THEN Append(@, [type |-> new.resourceType,
                                         cleared |-> page.filters.resourceId # ""
                                                     /\ new.resourceId = ""])
                         ELSE @]

\* fetchRecommendationsWithFilters(projectId, cloudPlatform, filters): the
\* filters the analysis request carries
RequestFilters(f) ==
    [resourceType |-> f.resourceType, startDate |-> f.startDate,
     endDate |-> f.endDate, resourceId |-> f.resourceId]

\* a request that has settled is off the wire and carries nothing any more
NoFilters ==
    [resourceType |-> "", startDate |-> NoDate, endDate |-> NoDate, resourceId |-> ""]

\* a resource type Select that keeps the resource id
SelectResourceType_KeepId(value) ==
    SetFilters([page.filters EXCEPT !.resourceType = value])

\* RecommendationFilterBar: the resource type Select's onValueChange
SelectResourceType(value) ==
    SetFilters([page.filters EXCEPT !.resourceType = value, !.resourceId = ""])

\* for the properties: what the validation of handleFetch finds missing
\* from the filters f that fail it
MissingFilter(f) ==
    CASE f.resourceType = ""                          -> "type"
      [] f.startDate = NoDate /\ f.endDate = NoDate   -> "dates"
      [] f.startDate = NoDate                         -> "start"
      [] OTHER                                        -> "end"

\* handleFetch that increments the generation only once validation passed
handleFetch_IncrementAfterValidation ==
    LET f == page.filters
        thisGeneration == page.generationRef + 1
    IN  IF f.resourceType = ""
        THEN /\ page' = [page EXCEPT
                           !.error = "Please select a Resource Type to analyze.",
                           !.recommendations = <<>>]
             /\ net' = [net EXCEPT !.fetch_calls = @ + 1,
                                   !.invalid = @ \cup {MissingFilter(f)}]
        ELSE IF f.startDate = NoDate \/ f.endDate = NoDate
        THEN /\ page' = [page EXCEPT
                           !.error = "Please select a date range.",
                           !.recommendations = <<>>]
             /\ net' = [net EXCEPT !.fetch_calls = @ + 1,
                                   !.invalid = @ \cup {MissingFilter(f)}]
        ELSE /\ page' = [page EXCEPT
                           !.generationRef = thisGeneration,
                           !.currentTaskIdRef = NoTaskId,
                           !.isLoading = TRUE,
                           !.error = NoError,
                           !.currentIndex = 0]
             /\ net' = [net EXCEPT
                          !.fetch_calls = @ + 1,
                          !.cancels = IF page.currentTaskIdRef # NoTaskId
                                      THEN SendCancel(@, "fetch", thisGeneration) ELSE @,
                          !.fetches = Append(@, [gen |-> thisGeneration,
                                                 state |-> "pending",
                                                 applied |-> FALSE,
                                                 filters |-> RequestFilters(f)])]

\* handleFetch that cancels the previous task before it validates the filters
handleFetch_CancelBeforeValidation ==
    LET f == page.filters
        thisGeneration == page.generationRef + 1
        cancels == IF page.currentTaskIdRef # NoTaskId
                   THEN SendCancel(net.cancels, "fetch", thisGeneration)
                   ELSE net.cancels
    IN  IF f.resourceType = ""
        THEN /\ page' = [page EXCEPT
                           !.generationRef = thisGeneration,
                           !.currentTaskIdRef = NoTaskId,
                           !.error = "Please select a Resource Type to analyze.",
                           !.recommendations = <<>>]
             /\ net' = [net EXCEPT !.fetch_calls = @ + 1, !.cancels = cancels,
                                   !.invalid = @ \cup {MissingFilter(f)}]
        ELSE IF f.startDate = NoDate \/ f.endDate = NoDate
        THEN /\ page' = [page EXCEPT
                           !.generationRef = thisGeneration,
                           !.currentTaskIdRef = NoTaskId,
                           !.error = "Please select a date range.",
                           !.recommendations = <<>>]
             /\ net' = [net EXCEPT !.fetch_calls = @ + 1, !.cancels = cancels,
                                   !.invalid = @ \cup {MissingFilter(f)}]
        ELSE /\ page' = [page EXCEPT
                           !.generationRef = thisGeneration,
                           !.currentTaskIdRef = NoTaskId,
                           !.isLoading = TRUE,
                           !.error = NoError,
                           !.currentIndex = 0]
             /\ net' = [net EXCEPT
                          !.fetch_calls = @ + 1,
                          !.cancels = cancels,
                          !.fetches = Append(@, [gen |-> thisGeneration,
                                                 state |-> "pending",
                                                 applied |-> FALSE,
                                                 filters |-> RequestFilters(f)])]

\* handleFetch, up to its await: the generation is incremented and captured,
\* the filters validated, the previous task's cancel fired without awaiting
\* it, the loading state set, the analysis request sent
handleFetch ==
    LET f == page.filters
        thisGeneration == page.generationRef + 1
    IN  IF f.resourceType = ""
        THEN /\ page' = [page EXCEPT
                           !.generationRef = thisGeneration,
                           !.error = "Please select a Resource Type to analyze.",
                           !.recommendations = <<>>]
             /\ net' = [net EXCEPT !.fetch_calls = @ + 1,
                                   !.invalid = @ \cup {MissingFilter(f)}]
        ELSE IF f.startDate = NoDate \/ f.endDate = NoDate
        THEN /\ page' = [page EXCEPT
                           !.generationRef = thisGeneration,
                           !.error = "Please select a date range.",
                           !.recommendations = <<>>]
             /\ net' = [net EXCEPT !.fetch_calls = @ + 1,
                                   !.invalid = @ \cup {MissingFilter(f)}]
        ELSE /\ page' = [page EXCEPT
                           !.generationRef = thisGeneration,
                           !.currentTaskIdRef = NoTaskId,
                           !.isLoading = TRUE,
                           !.error = NoError,
                           !.currentIndex = 0]
             /\ net' = [net EXCEPT
                          !.fetch_calls = @ + 1,
                          !.cancels = IF page.currentTaskIdRef # NoTaskId
                                      THEN SendCancel(@, "fetch", thisGeneration) ELSE @,
                          !.fetches = Append(@, [gen |-> thisGeneration,
                                                 state |-> "pending",
                                                 applied |-> FALSE,
                                                 filters |-> RequestFilters(f)])]

\* the recommendations request r answered with: n recommendations
Recommendations(r, n) == [j \in 1..n |-> r]

\* the continuation of handleFetch without the comparison of generations
handleFetchResolves_NoGenerationCheck(r, taskId, n) ==
    /\ r \in DOMAIN net.fetches
    /\ net.fetches[r].state = "pending"
    /\ net' = [net EXCEPT !.fetches[r].state = "resolved", !.fetches[r].applied = TRUE,
                          !.fetches[r].filters = NoFilters]
    /\ page' = [page EXCEPT
                  !.currentTaskIdRef = IF taskId # NoTaskId THEN taskId ELSE @,
                  !.recommendations = Recommendations(r, n),
                  !.isLoading = IF page.generationRef = net.fetches[r].gen
                                THEN FALSE ELSE @]

\* a finally block that switches the loading indicator off whatever the
\* generation
handleFetchResolves_AlwaysStopsLoading(r, taskId, n) ==
    /\ r \in DOMAIN net.fetches
    /\ net.fetches[r].state = "pending"
    /\ net' = [net EXCEPT !.fetches[r].state = "resolved",
                          !.fetches[r].applied = (page.generationRef = net.fetches[r].gen),
                          !.fetches[r].filters = NoFilters]
    /\ IF page.generationRef # net.fetches[r].gen
       THEN page' = [page EXCEPT !.isLoading = FALSE]
       ELSE page' = [page EXCEPT
                       !.currentTaskIdRef = IF taskId # NoTaskId THEN taskId ELSE @,
                       !.recommendations = Recommendations(r, n),
                       !.isLoading = FALSE]

\* handleFetch after its await, the request r having resolved with a task
\* id (or none) and n recommendations: try block, then finally
handleFetchResolves(r, taskId, n) ==
    /\ r \in DOMAIN net.fetches
    /\ net.fetches[r].state = "pending"
    /\ net' = [net EXCEPT !.fetches[r].state = "resolved",
                          !.fetches[r].applied = (page.generationRef = net.fetches[r].gen),
                          !.fetches[r].filters = NoFilters]
    /\ IF page.generationRef # net.fetches[r].gen
       THEN page' = page
       ELSE page' = [page EXCEPT
                       !.currentTaskIdRef = IF taskId # NoTaskId THEN taskId ELSE @,
                       !.recommendations = Recommendations(r, n),
                       !.isLoading = FALSE]

\* a catch block that shows the error whatever the generation
handleFetchRejects_NoGenerationCheck(r) ==
    /\ r \in DOMAIN net.fetches
    /\ net.fetches[r].state = "pending"
    /\ net' = [net EXCEPT !.fetches[r].state = "rejected",
                          !.fetches[r].applied = (page.generationRef = net.fetches[r].gen),
                          !.fetches[r].filters = NoFilters]
    /\ page' = [page EXCEPT
                  !.error = "Request failed",
                  !.isLoading = IF page.generationRef = net.fetches[r].gen
                                THEN FALSE ELSE @]

\* handleFetch after its await, the request r having thrown: catch block,
\* then finally
handleFetchRejects(r) ==
    /\ r \in DOMAIN net.fetches
    /\ net.fetches[r].state = "pending"
    /\ net' = [net EXCEPT !.fetches[r].state = "rejected",
                          !.fetches[r].applied = (page.generationRef = net.fetches[r].gen),
                          !.fetches[r].filters = NoFilters]
    /\ IF page.generationRef # net.fetches[r].gen
       THEN page' = page
       ELSE page' = [page EXCEPT !.error = "Request failed", !.isLoading = FALSE]

\* a cancelBackendTask that lets the failure of its request escape
cancelBackendTask_Rethrow(outcome) == IF outcome = "ok" THEN "returned" ELSE "threw"

\* cancelBackendTask(projectId) once its request has settled: a non-2xx
\* status is thrown inside its try block, and the catch block logs whatever
\* was thrown and does not throw again
cancelBackendTask(outcome) == "returned"

\* the cancel request k that handleFetch fired settles; nobody awaits it
CancelSettles(k, outcome) ==
    /\ k \in DOMAIN net.cancels
    /\ net.cancels[k].by = "fetch"
    /\ net.cancels[k].state = "pending"
    /\ cancelBackendTask(outcome) = "returned"
    /\ net' = [net EXCEPT !.cancels[k].state = outcome]
    /\ UNCHANGED page

\* handleReset as it was before the fix: the UI cleared at the click
handleReset_ClearFirst ==
    /\ page' = [page EXCEPT
                  !.generationRef = @ + 1,
                  !.isLoading = FALSE,
                  !.filters = DefaultFilters,
                  !.recommendations = <<>>,
                  !.currentIndex = 0,
                  !.error = NoError,
                  !.isTransitioning = FALSE]
    /\ net' = [net EXCEPT
                 !.reset_calls = @ + 1,
                 !.cancels = SendCancel(@, "reset", page.generationRef + 1)]

\* handleReset, up to its await: the generation is incremented, the loading
\* indicator switched off, the cancel request sent (projectId is the route
\* parameter, never empty)
handleReset ==
    /\ page' = [page EXCEPT !.generationRef = @ + 1, !.isLoading = FALSE]
    /\ net' = [net EXCEPT
                 !.reset_calls = @ + 1,
                 !.cancels = SendCancel(@, "reset", page.generationRef + 1)]

\* the page as handleReset leaves it (the filter bar's effect empties the
\* list of resource ids when the reset changes the type or the toggle)
ClearedPage(p) ==
    [p EXCEPT !.currentTaskIdRef = NoTaskId,
              !.filters = DefaultFilters,
              !.resourceIds = IF EffectRuns(p.filters, DefaultFilters) THEN {} ELSE @,
              !.recommendations = <<>>,
              !.currentIndex = 0,
              !.error = NoError,
              !.isTransitioning = FALSE]

\* a handleReset that shows the failure of the cancel request
handleResetContinues_ShowError(k, outcome) ==
    /\ k \in DOMAIN net.cancels
    /\ net.cancels[k].by = "reset"
    /\ net.cancels[k].state = "pending"
    /\ page' = [ClearedPage(page) EXCEPT
                  !.error = IF outcome = "ok" THEN NoError ELSE "Cancel request failed"]
    /\ net' = [net EXCEPT !.cancels[k].state = outcome, !.cancels[k].cleared = TRUE]

\* handleReset after its await: the cancel request k has settled and
\* cancelBackendTask has returned; the task id ref and the UI are cleared
handleResetContinues(k, outcome) ==
    /\ k \in DOMAIN net.cancels
    /\ net.cancels[k].by = "reset"
    /\ net.cancels[k].state = "pending"
    /\ IF cancelBackendTask(outcome) = "returned"
       THEN /\ page' = ClearedPage(page)
            /\ net' = [net EXCEPT !.cancels[k].state = outcome,
                                  !.cancels[k].cleared = TRUE]
       ELSE /\ page' = page
            /\ net' = [net EXCEPT !.cancels[k].state = outcome]

----------------------------------------------------------------------------
(* The LLM response cache (llm_cache table, cache integration of the         *)
(* analysis endpoint).                                                        *)
(*   cache.table     hash_key -> output_json: the rows of llm_cache           *)
(*   cache.requests  the analysis requests in order: the task the endpoint    *)
(*                   created for the request, its hash key, whether the       *)
(*                   endpoint is "calling" the LLM, "done" or "failed",       *)
(*                   whether the lookup was a hit, the number of LLM calls    *)
(*                   made for the request, the output returned (NoOutput      *)
(*                   until then), and for the properties the row found by     *)
(*                   the lookup                                               *)
(* An output of the LLM carries the number of the request whose run made the  *)
(* calls, so two runs never return the same output.                           *)

NoOutput == [by |-> 0, kind |-> "none", items |-> {}]

InitialCache == [table |-> <<>>, requests |-> <<>>]

\* the parameters of the analysis requests the cache runs pick from
CacheParams ==
    [cloud_platform : {"azure"}, schema_name : {"5"}, resource_type : {"vm", "storage"},
     start_date : {Today - 7}, end_date : {Today}, resource_id : {"", "vm-1"}]

\* generate_cache_hash_key: the hash of the six parameters in the order
\* cloud_platform | schema_name | resource_type | start_date | end_date |
\* resource_id; distinct parameter lists have distinct keys
generate_cache_hash_key(params) ==
    <<params.cloud_platform, params.schema_name, params.resource_type,
      params.start_date, params.end_date, params.resource_id>>

\* get_cached_result(hash_key): the stored output, NoOutput on a miss
get_cached_result(hash_key) ==
    IF hash_key \in DOMAIN cache.table THEN cache.table[hash_key] ELSE NoOutput

\* save_to_cache(hash_key, output): the table with the row of hash_key
\* holding output (hash_key is UNIQUE: one row per key)
save_to_cache(hash_key, output) ==
    [h \in DOMAIN cache.table \cup {hash_key} |->
        IF h = hash_key THEN output ELSE cache.table[h]]

----------------------------------------------------------------------------
(* Operations *)

\* create_task called on its own (registry-only runs)
CreateTask(project_id) ==
    /\ NewTaskId <= MaxTasks
    /\ create_task(project_id)
    /\ RecordCreate(project_id)
    /\ UNCHANGED <<loop, pageVars, cache>>

\* the analysis endpoint on a miss: creates the task with the project id in
\* its metadata, then runs the work over the `total` resources selected
StartAnalysis(project_id, total, single) ==
    /\ create_task(project_id)
    /\ RecordCreate(project_id)
    /\ loop' = [t \in DOMAIN loop \cup {NewTaskId} |->
                   IF t = NewTaskId
                   THEN NewLoop(total, NewTaskId \in cancelled_tasks', single)
                   ELSE loop[t]]

\* the analysis endpoint receives a request of project_id with the
\* parameters params: it creates the task, generates the hash key and checks
\* the cache; on a hit it returns the cached data and no work starts, on a
\* miss ("Cache miss - calling LLM ... (task: ...)") the work starts for the
\* task over the `total` resources selected, the single-resource function
\* when a resource id is given
AnalysisRequest(project_id, params, total) ==
    LET hash_key == generate_cache_hash_key(params)
        cached == get_cached_result(hash_key)
    IN  /\ IF cached # NoOutput
           THEN /\ create_task(project_id)
                /\ RecordCreate(project_id)
                /\ loop' = loop
           ELSE StartAnalysis(project_id, total, params.resource_id # "")
        /\ cache' = [cache EXCEPT !.requests =
              Append(@, IF cached # NoOutput
                        THEN [task |-> NewTaskId, hash_key |-> hash_key,
                              state |-> "done", hit |-> TRUE, llm_calls |-> 0,
                              output |-> cached, found |-> cached]
                        ELSE [task |-> NewTaskId, hash_key |-> hash_key,
                              state |-> "calling", hit |-> FALSE, llm_calls |-> 0,
                              output |-> NoOutput, found |-> NoOutput])]

\* the work of request j has returned. The flow documented for a miss is
\* "call LLM, save to cache, return": what the work returns when it ran to
\* its end is saved under the key and returned. The documents do not say
\* what the endpoint does with the key when the work stopped at a
\* cancellation (it returns None, or the recommendations recorded so far) or
\* when the single-resource function threw: the row is written or it is
\* not. The response is what the work returned, no result after an
\* exception.
AnalysisSavesAndReturns(j) ==
    /\ j \in DOMAIN cache.requests
    /\ cache.requests[j].state = "calling"
    /\ loop[cache.requests[j].task].pc = "done"
    /\ LET task_id == cache.requests[j].task
           result == Returned(task_id)
           output == [by |-> j, kind |-> result.kind, items |-> result.items]
           completed == ~loop[task_id].stopped /\ result.kind # "error"
       IN  \E saved \in IF completed THEN {TRUE} ELSE BOOLEAN :
              cache' = [cache EXCEPT
                          !.table = IF saved
                                    THEN save_to_cache(cache.requests[j].hash_key, output)
                                    ELSE @,
                          !.requests[j].state = IF result.kind = "error"
                                                THEN "failed" ELSE "done",
                          !.requests[j].llm_calls = Cardinality(loop[task_id].calls),
                          !.requests[j].output = IF result.kind = "error"
                                                 THEN NoOutput ELSE output]
    /\ UNCHANGED <<backendVars, pageVars>>

\* the parameters of an analysis request of project_id for VMs over the last
\* week, of all of them or of the one with resource_id
RunParams(project_id, resource_id) ==
    [cloud_platform |-> "azure", schema_name |-> project_id, resource_type |-> "vm",
     start_date |-> Today - 7, end_date |-> Today, resource_id |-> resource_id]

RunAnalysis(project_id, total) ==
    /\ Len(cache.requests) < MaxRuns
    /\ AnalysisRequest(project_id, RunParams(project_id, ""), total)
    /\ UNCHANGED pageVars

\* the analysis endpoint called with a resource id: the single-resource
\* function runs for that one resource
RunSingle(project_id) ==
    /\ Len(cache.requests) < MaxRuns
    /\ AnalysisRequest(project_id, RunParams(project_id, "vm-1"), 1)
    /\ UNCHANGED pageVars

\* the one analysis run of the documented scenario
RunOnce(project_id, total) ==
    /\ cache.requests = <<>>
    /\ AnalysisRequest(project_id, RunParams(project_id, ""), total)
    /\ UNCHANGED pageVars

CancelProject(project_id) ==
    /\ cancel_tasks_no_auth(project_id)
    /\ RecordCancel(project_id)
    /\ NoteCancel(cancelled_tasks' \ cancelled_tasks, TasksOf(project_id))
    /\ UNCHANGED <<pageVars, cache>>

CancelTask(task_id) ==
    /\ cancel_task(task_id)
    /\ RecordCancelTask(task_id)
    /\ NoteCancel(cancelled_tasks' \ cancelled_tasks, {task_id})
    /\ UNCHANGED <<pageVars, cache>>

Init ==
    /\ active_tasks = <<>>
    /\ cancelled_tasks = {}
    /\ pending_cancel_projects = {}
    /\ response = NoResponse
    /\ hist = [call |-> NoCall,
               last |-> [p \in ProjectIds |-> NoOp],
               cancel_seen |-> {},
               precancelled |-> {}]
    /\ loop = <<>>
    /\ page = InitialPage
    /\ net = InitialNet
    /\ cache = InitialCache

\* the registry on its own
Next ==
    \/ \E p \in ProjectIds \cup {NoProject} : CreateTask(p)
    \/ \E p \in ProjectIds : CancelProject(p)
    \/ \E t \in TaskIds : CancelTask(t)

Spec == Init /\ [][Next]_vars

\* analysis runs with their work loops, and the cancel calls
NextLoop ==
    \/ \E p \in ProjectIds, n \in 0..MaxResources : RunAnalysis(p, n)
    \/ \E p \in ProjectIds : RunSingle(p)
    \/ \E p \in ProjectIds : CancelProject(p)
    \/ \E t \in TaskIds : CancelTask(t)
    \/ \E t \in DOMAIN loop : LoopCheck(t)
    \/ \E t \in DOMAIN loop : LoopCheckBeforeCall(t)
    \/ \E t \in DOMAIN loop : StartExternalCall(t)
    \/ \E t \in DOMAIN loop : \E ok \in Outcomes(t) : ExternalCallReturns(t, ok)
    \/ \E j \in DOMAIN cache.requests : AnalysisSavesAndReturns(j)

SpecLoop == Init /\ [][NextLoop]_vars

\* the work loop is a running background task: each of its steps is taken
\* once it can be, and an external call in flight returns
LoopFairness ==
    \A t \in 1..MaxTasks :
        /\ WF_vars(LoopCheck(t))
        /\ WF_vars(LoopCheckBeforeCall(t))
        /\ WF_vars(StartExternalCall(t))
        /\ WF_vars(t \in DOMAIN loop /\ \E ok \in Outcomes(t) : ExternalCallReturns(t, ok))

SpecLoopFair == Init /\ [][NextLoop]_vars /\ LoopFairness

\* a single analysis run, of a short list or of the 101 VMs of the documented
\* scenario, and the cancel calls
NextScenario ==
    \/ \E p \in ProjectIds, n \in ResourceCounts : RunOnce(p, n)
    \/ \E p \in ProjectIds : CancelProject(p)
    \/ \E t \in TaskIds : CancelTask(t)
    \/ \E t \in DOMAIN loop : LoopCheck(t)
    \/ \E t \in DOMAIN loop : LoopCheckBeforeCall(t)
    \/ \E t \in DOMAIN loop : StartExternalCall(t)
    \/ \E t \in DOMAIN loop : \E ok \in Outcomes(t) : ExternalCallReturns(t, ok)
    \/ \E j \in DOMAIN cache.requests : AnalysisSavesAndReturns(j)

SpecScenario == Init /\ [][NextScenario]_vars

\* the prop onRunAnalysis={handleFetch} called by the component it is given
\* to: handleFetch runs, whatever the filters and the loading state
onRunAnalysis ==
    /\ net.fetch_calls + net.reset_calls < MaxClicks
    /\ handleFetch
    /\ UNCHANGED <<backendVars, cache>>

\* the prop onReset={handleReset} called by the component it is given to
onReset ==
    /\ net.fetch_calls + net.reset_calls < MaxClicks
    /\ handleReset
    /\ UNCHANGED <<backendVars, cache>>

\* the handlers of the page, called through the props the page hands out in
\* any order and in any state, and the requests settling in any order with
\* any outcome. This is what handleFetch and handleReset do for any caller;
\* RecommendationFilterBar.tsx as it is in the repository calls
\* onRunAnalysis only from the enabled Run Analysis button and declares no
\* onReset prop: NextPageUI is the page with that filter bar.
NextPage ==
    \/ onRunAnalysis
    \/ onReset
    \/ \E preset \in DateRangePresets :
          handleDateRangePresetChange(preset) /\ UNCHANGED <<backendVars, cache>>
    \/ \E i \in DOMAIN AZURE_RESOURCES :
          SelectResourceType(AZURE_RESOURCES[i]) /\ UNCHANGED <<backendVars, cache>>
    \/ \E r \in DOMAIN net.fetches, n \in 0..MaxRecommendations :
          \E taskId \in {NoTaskId, r} :
             handleFetchResolves(r, taskId, n) /\ UNCHANGED <<backendVars, cache>>
    \/ \E r \in DOMAIN net.fetches : handleFetchRejects(r) /\ UNCHANGED <<backendVars, cache>>
    \/ \E k \in DOMAIN net.cancels, outcome \in RequestOutcomes :
          CancelSettles(k, outcome) /\ UNCHANGED <<backendVars, cache>>
    \/ \E k \in DOMAIN net.cancels, outcome \in RequestOutcomes :
          handleResetContinues(k, outcome) /\ UNCHANGED <<backendVars, cache>>

SpecPage == Init /\ [][NextPage]_vars

\* a request of the page settles: it is answered, or it fails
PageFairness ==
    /\ \A k \in 1..MaxClicks :
          WF_vars(\E outcome \in RequestOutcomes :
                     handleResetContinues(k, outcome) /\ UNCHANGED <<backendVars, cache>>)

SpecPageFair == Init /\ [][NextPage]_vars /\ PageFairness

----------------------------------------------------------------------------
(* The filter bar (RecommendationFilterBar.tsx) *)

\* the days of the calendars that the runs click on
CalendarDays == (Today - DaysBack)..(Today + 1)

\* a start-date calendar that disables no day
StartDateDisabled_Never(date) == FALSE

\* the disabled predicate of the start-date calendar
StartDateDisabled(date) == date > Today

\* the disabled predicate of the end-date calendar
EndDateDisabled(date) ==
    \/ date > Today
    \/ IF page.filters.startDate # NoDate THEN date < page.filters.startDate ELSE FALSE

\* onSelect of the start-date calendar
SelectStartDate(date) ==
    /\ page' = [page EXCEPT !.filters = [@ EXCEPT !.startDate = date]]
    /\ UNCHANGED net

\* onSelect of the end-date calendar
SelectEndDate(date) ==
    /\ page' = [page EXCEPT !.filters = [@ EXCEPT !.endDate = date]]
    /\ UNCHANGED net

\* a toggle that keeps the resource id when it is switched off
handleResourceIdToggle_KeepId(enabled) ==
    SetFilters([page.filters EXCEPT !.resourceIdEnabled = enabled])

handleResourceIdToggle(enabled) ==
    SetFilters([page.filters EXCEPT !.resourceIdEnabled = enabled,
                                    !.resourceId = IF enabled THEN @ ELSE ""])

\* onValueChange of the resource-ID Select
SelectResourceId(value) ==
    SetFilters([page.filters EXCEPT !.resourceId = value])

\* the resource ids the backend has for a resource type
ResourceIdsOf(type) ==
    CASE type = "VM"      -> {"vm-1"}
      [] type = "Storage" -> {"storage-1"}
      [] OTHER            -> {}

\* how a resource-ID request ends: status 'success' with ids, 'success'
\* without resource_ids, another status, or an error thrown
IdOutcomes == {"ids", "no_ids", "not_success", "error"}

\* the sequence without its j-th entry
RemoveAt(seq, j) == SubSeq(seq, 1, j - 1) \o SubSeq(seq, j + 1, Len(seq))

\* fetchResourceIds after its await, the request j having ended with outcome
ResourceIdsRespond(j, outcome) ==
    /\ j \in DOMAIN net.id_fetches
    /\ net' = [net EXCEPT !.id_fetches = RemoveAt(@, j)]
    /\ page' = [page EXCEPT
                  !.resourceIds =
                      CASE outcome = "ids"    -> ResourceIdsOf(net.id_fetches[j].type)
                        [] outcome = "no_ids" -> {}
                        [] outcome = "error"  -> {}
                        [] OTHER              -> @,
                  !.loadingResourceIds = FALSE]

\* bound of the runs, not code: at most MaxIdFetches resource-ID requests
\* are unanswered at a time; the click that would send one more is made
\* once a request has been answered
WithinIdFetches(new) ==
    (EffectRuns(page.filters, new) /\ EffectFetches(new))
       => Len(net.id_fetches) < MaxIdFetches

\* clicks on the controls of the filter bar that are shown and enabled
PresetClick(preset) ==
    /\ handleDateRangePresetChange(preset)
    /\ UNCHANGED <<backendVars, cache>>

StartDateClick(date) ==
    /\ page.filters.dateRangePreset = "custom"
    /\ ~StartDateDisabled(date)
    /\ SelectStartDate(date)
    /\ UNCHANGED <<backendVars, cache>>

EndDateClick(date) ==
    /\ page.filters.dateRangePreset = "custom"
    /\ ~EndDateDisabled(date)
    /\ SelectEndDate(date)
    /\ UNCHANGED <<backendVars, cache>>

ResourceTypeClick(value) ==
    /\ WithinIdFetches([page.filters EXCEPT !.resourceType = value, !.resourceId = ""])
    /\ SelectResourceType(value)
    /\ UNCHANGED <<backendVars, cache>>

ToggleClick ==
    /\ WithinIdFetches([page.filters EXCEPT !.resourceIdEnabled = ~@])
    /\ handleResourceIdToggle(~page.filters.resourceIdEnabled)
    /\ UNCHANGED <<backendVars, cache>>

ResourceIdClick(value) ==
    /\ page.filters.resourceIdEnabled
    /\ ~(page.loadingResourceIds \/ page.filters.resourceType = "")
    /\ value \in page.resourceIds
    /\ SelectResourceId(value)
    /\ UNCHANGED <<backendVars, cache>>

\* the filter bar without its Run Analysis button: the user's changes of the
\* filters through every control, the preset Select offering every preset,
\* and the resource-ID requests ending in any order
NextFilters ==
    \/ \E preset \in DateRangePresets : PresetClick(preset)
    \/ \E date \in CalendarDays : StartDateClick(date)
    \/ \E date \in CalendarDays : EndDateClick(date)
    \/ \E i \in DOMAIN AZURE_RESOURCES : ResourceTypeClick(AZURE_RESOURCES[i])
    \/ ToggleClick
    \/ \E value \in UNION {ResourceIdsOf(AZURE_RESOURCES[i]) : i \in DOMAIN AZURE_RESOURCES} :
          ResourceIdClick(value)
    \/ \E j \in DOMAIN net.id_fetches, outcome \in IdOutcomes :
          ResourceIdsRespond(j, outcome) /\ UNCHANGED <<backendVars, cache>>

SpecFilters == Init /\ [][NextFilters]_vars

\* the days the calendars are clicked on in the runs of the props
PropDays == (Today - PropDaysBack)..Today

\* the props the page hands out, called in any order and in any state:
\* onRunAnalysis (sending at most MaxPropRequests analysis requests, the
\* calls that fail the validation not counted) and onReset, and
\* setFilters={setFilters} called as the preset Select calls it (every
\* preset), as the resource type Select calls it, as the calendars call it
\* with a start date or an end date, and called with no resource type (the
\* value useState(filters) starts with when resourceOptions is empty); the
\* requests settle in any order with any outcome. handleFetch sends a
\* cancel request only when it holds the task id of an earlier answer, that
\* is with a later analysis request: with MaxPropRequests = 1 the cancel
\* requests of the runs are those of handleReset.
NextPageProps ==
    \/ /\ \/ Len(net.fetches) < MaxPropRequests
          \/ page.filters.resourceType = ""
          \/ page.filters.startDate = NoDate
          \/ page.filters.endDate = NoDate
       /\ onRunAnalysis
    \/ onReset
    \/ \E preset \in DateRangePresets :
          handleDateRangePresetChange(preset) /\ UNCHANGED <<backendVars, cache>>
    \/ \E i \in DOMAIN AZURE_RESOURCES :
          SelectResourceType(AZURE_RESOURCES[i]) /\ UNCHANGED <<backendVars, cache>>
    \/ SelectResourceType("") /\ UNCHANGED <<backendVars, cache>>
    \/ \E date \in PropDays : SelectStartDate(date) /\ UNCHANGED <<backendVars, cache>>
    \/ \E date \in PropDays : SelectEndDate(date) /\ UNCHANGED <<backendVars, cache>>
    \/ \E r \in DOMAIN net.fetches, n \in 0..MaxRecommendations :
          \E taskId \in {NoTaskId, r} :
             handleFetchResolves(r, taskId, n) /\ UNCHANGED <<backendVars, cache>>
    \/ \E r \in DOMAIN net.fetches : handleFetchRejects(r) /\ UNCHANGED <<backendVars, cache>>
    \/ \E k \in DOMAIN net.cancels, outcome \in RequestOutcomes :
          handleResetContinues(k, outcome) /\ UNCHANGED <<backendVars, cache>>

SpecPageProps == Init /\ [][NextPageProps]_vars

\* a Run Analysis button that is never disabled
RunAnalysisDisabled_Never == FALSE

\* RecommendationFilterBar: the disabled attribute of the Run Analysis button
RunAnalysisDisabled ==
    \/ page.isLoading
    \/ page.filters.resourceType = ""
    \/ page.filters.startDate = NoDate
    \/ page.filters.endDate = NoDate

\* a click on Run Analysis: the button calls onRunAnalysis unless it is
\* disabled
RunAnalysisClick ==
    /\ ~RunAnalysisDisabled
    /\ net.fetch_calls < MaxRunClicks
    /\ onRunAnalysis

\* Math.max and Math.min
Max(a, b) == IF a >= b THEN a ELSE b
Min(a, b) == IF a <= b THEN a ELSE b

\* a carousel handler sets its 200 ms timer
SetTimer(kind, len, index) ==
    /\ page' = [page EXCEPT !.isTransitioning = TRUE]
    /\ net' = [net EXCEPT !.timers = Append(@, [kind |-> kind, len |-> len,
                                                index |-> index])]

\* a carousel handler returns at its guard
NoTimer ==
    /\ page' = page
    /\ net' = net

handlePrevious ==
    IF page.isTransitioning THEN NoTimer ELSE SetTimer("prev", 0, 0)

\* handleNext: the callback reads the recommendations of the render in
\* which the click happened
handleNext ==
    IF page.isTransitioning THEN NoTimer
    ELSE SetTimer("next", Len(page.recommendations), 0)

handleDotClick(index) ==
    IF page.isTransitioning \/ index = page.currentIndex THEN NoTimer
    ELSE SetTimer("dot", 0, index)

\* the results display shows the carousel with its navigation controls
CarouselShown ==
    /\ ~page.isLoading
    /\ page.error = NoError
    /\ Len(page.recommendations) > 1

\* clicks on the controls that are shown and enabled
PreviousClick ==
    /\ CarouselShown
    /\ page.currentIndex # 0
    /\ handlePrevious
    /\ UNCHANGED <<backendVars, cache>>

NextClick ==
    /\ CarouselShown
    /\ page.currentIndex # Len(page.recommendations) - 1
    /\ handleNext
    /\ UNCHANGED <<backendVars, cache>>

DotClick(index) ==
    /\ CarouselShown
    /\ ~page.isTransitioning
    /\ index \in 0..(Len(page.recommendations) - 1)
    /\ handleDotClick(index)
    /\ UNCHANGED <<backendVars, cache>>

\* the timers without entry i
WithoutTimer(i) ==
    [j \in 1..(Len(net.timers) - 1) |->
        IF j < i THEN net.timers[j] ELSE net.timers[j + 1]]

\* the timer i runs its callback; timers of the same delay run in the order
\* they were set. A 200 ms callback sets currentIndex and sets the 100 ms
\* timer whose callback ends the transition.
TimerFires(i) ==
    /\ i \in DOMAIN net.timers
    /\ \A j \in 1..(i - 1) : (net.timers[j].kind = "end") # (net.timers[i].kind = "end")
    /\ LET t == net.timers[i]
       IN  IF t.kind = "end"
           THEN /\ page' = [page EXCEPT !.isTransitioning = FALSE]
                /\ net' = [net EXCEPT !.timers = WithoutTimer(i)]
           ELSE /\ page' = [page EXCEPT !.currentIndex =
                               CASE t.kind = "prev" -> Max(0, @ - 1)
                                 [] t.kind = "next" -> Min(t.len - 1, @ + 1)
                                 [] OTHER           -> t.index]
                /\ net' = [net EXCEPT !.timers =
                              Append(WithoutTimer(i),
                                     [kind |-> "end", len |-> 0, index |-> 0])]
    /\ UNCHANGED <<backendVars, cache>>

\* an analysis request of the page settles: it resolves with a task id (or
\* none) and some recommendations, or it throws
FetchSettles ==
    \/ \E r \in DOMAIN net.fetches, n \in 0..MaxRecommendations :
          \E taskId \in {NoTaskId, r} :
             handleFetchResolves(r, taskId, n) /\ UNCHANGED <<backendVars, cache>>
    \/ \E r \in DOMAIN net.fetches : handleFetchRejects(r) /\ UNCHANGED <<backendVars, cache>>
    \/ \E k \in DOMAIN net.cancels, outcome \in RequestOutcomes :
          CancelSettles(k, outcome) /\ UNCHANGED <<backendVars, cache>>

\* the page as it is rendered: every control of the filter bar and of the
\* results display that is shown and enabled, the requests settling in any
\* order with any outcome, the timers running. No control calls
\* handleReset: the filter bar takes no onReset prop.
NextPageUI ==
    \/ RunAnalysisClick
    \/ NextFilters
    \/ FetchSettles
    \/ PreviousClick
    \/ NextClick
    \/ \E index \in 0..(MaxRecommendations - 1) : DotClick(index)
    \/ \E i \in DOMAIN net.timers : TimerFires(i)

SpecPageUI == Init /\ [][NextPageUI]_vars

\* an analysis request of the page is answered or fails: fetch() resolves or
\* rejects once the backend has answered or the connection has failed
AnalysisSettles ==
    \/ \E r \in DOMAIN net.fetches, n \in 0..MaxRecommendations :
          \E taskId \in {NoTaskId, r} :
             handleFetchResolves(r, taskId, n) /\ UNCHANGED <<backendVars, cache>>
    \/ \E r \in DOMAIN net.fetches : handleFetchRejects(r) /\ UNCHANGED <<backendVars, cache>>

\* the handlers of the page called through the props it hands out, in any
\* order and in any state, except onRunAnalysis: it is called by the Run
\* Analysis button of the filter bar, that is only while the button is
\* enabled. setFilters is called as the preset Select (every preset), the
\* calendars and the resource type Select call it; onReset is called in any
\* state; the requests settle in any order with any outcome.
NextPageButton ==
    \/ RunAnalysisClick
    \/ onReset
    \/ \E preset \in DateRangePresets : PresetClick(preset)
    \/ \E date \in CalendarDays : StartDateClick(date)
    \/ \E date \in CalendarDays : EndDateClick(date)
    \/ \E i \in DOMAIN AZURE_RESOURCES :
          SelectResourceType(AZURE_RESOURCES[i]) /\ UNCHANGED <<backendVars, cache>>
    \/ FetchSettles
    \/ \E k \in DOMAIN net.cancels, outcome \in RequestOutcomes :
          handleResetContinues(k, outcome) /\ UNCHANGED <<backendVars, cache>>

\* every analysis request settles: the backend answers it, or the
\* connection fails
SpecPageButtonFair == Init /\ [][NextPageButton]_vars /\ WF_vars(AnalysisSettles)

\* the parameters the endpoint gets from the analysis request of the page
\* with the filters f
EndpointParams(f) ==
    [cloud_platform |-> cloudPlatform, schema_name |-> projectId,
     resource_type |-> f.resourceType, start_date |-> f.startDate,
     end_date |-> f.endDate, resource_id |-> f.resourceId]

\* the analysis request r of the page reaches the backend: the endpoint
\* creates its task and looks the request up in the cache; on a miss it
\* starts the work over the project's resources
AnalysisArrives(r, total) ==
    /\ r \in DOMAIN net.fetches
    /\ r \notin DOMAIN net.arrived
    /\ net.fetches[r].state = "pending"
    /\ AnalysisRequest(projectId, EndpointParams(net.fetches[r].filters),
                       IF net.fetches[r].filters.resourceId # "" THEN 1 ELSE total)
    /\ net' = [net EXCEPT !.arrived =
                  [x \in DOMAIN net.arrived \cup {r} |->
                      IF x = r THEN NewTaskId ELSE net.arrived[x]]]
    /\ UNCHANGED page

\* the cancel request k of the page reaches the backend:
\* POST /cancel-tasks/{projectId}
CancelArrives(k) ==
    /\ k \in DOMAIN net.cancels
    /\ k \notin DOMAIN net.cancel_arrived
    /\ net.cancels[k].state = "pending"
    /\ cancel_tasks_no_auth(projectId)
    /\ RecordCancel(projectId)
    /\ NoteCancel(cancelled_tasks' \ cancelled_tasks, TasksOf(projectId))
    /\ net' = [net EXCEPT !.cancel_arrived =
                  [x \in DOMAIN net.cancel_arrived \cup {k} |->
                      IF x = k THEN cancelled_tasks' \ cancelled_tasks
                               ELSE net.cancel_arrived[x]]]
    /\ UNCHANGED <<page, cache>>

\* the request of the cache runs that the endpoint handles with task_id
RequestOf(task_id) ==
    CHOOSE j \in DOMAIN cache.requests : cache.requests[j].task = task_id

\* the endpoint is done with the analysis request r, by a hit or by the end
\* of its work, and answers with the task id and the recommendations of its
\* output
AnalysisResponds(r) ==
    /\ r \in DOMAIN net.arrived
    /\ cache.requests[RequestOf(net.arrived[r])].state = "done"
    /\ handleFetchResolves(r, net.arrived[r],
           Cardinality(cache.requests[RequestOf(net.arrived[r])].output.items))
    /\ UNCHANGED <<backendVars, cache>>

\* a request answered with success has reached the backend
Answered(k, outcome) == outcome = "ok" => k \in DOMAIN net.cancel_arrived

\* the page and the backend together: the requests of the page reach the
\* backend in any order, the work loops run, the answers come back
NextApp ==
    \/ RunAnalysisClick
    \/ \E preset \in DateRangePresets : PresetClick(preset)
    \/ \E i \in DOMAIN AZURE_RESOURCES : ResourceTypeClick(AZURE_RESOURCES[i])
    \/ \E r \in DOMAIN net.fetches : AnalysisArrives(r, AppResources)
    \/ \E k \in DOMAIN net.cancels : CancelArrives(k)
    \/ \E t \in DOMAIN loop : LoopCheck(t)
    \/ \E t \in DOMAIN loop : LoopCheckBeforeCall(t)
    \/ \E t \in DOMAIN loop : StartExternalCall(t)
    \/ \E t \in DOMAIN loop : ExternalCallReturns(t, TRUE)
    \/ \E j \in DOMAIN cache.requests : AnalysisSavesAndReturns(j)
    \/ \E r \in DOMAIN net.fetches : AnalysisResponds(r)
    \/ \E r \in DOMAIN net.fetches : handleFetchRejects(r) /\ UNCHANGED <<backendVars, cache>>
    \/ \E k \in DOMAIN net.cancels, outcome \in RequestOutcomes :
          /\ Answered(k, outcome)
          /\ CancelSettles(k, outcome)
          /\ UNCHANGED <<backendVars, cache>>

SpecApp == Init /\ [][NextApp]_vars

\* an analysis request with the parameters params arrives at the endpoint
CacheRequestArrives(params, total) ==
    /\ Len(cache.requests) < MaxCacheRequests
    /\ AnalysisRequest(params.schema_name, params,
                       IF params.resource_id # "" THEN 1 ELSE total)
    /\ UNCHANGED pageVars

\* analysis requests going through the cache and the cancel calls for their
\* project, in any order with the steps of the work
NextCache ==
    \/ \E params \in CacheParams : CacheRequestArrives(params, AppResources)
    \/ \E params \in CacheParams : CancelProject(params.schema_name)
    \/ \E t \in DOMAIN loop : LoopCheck(t)
    \/ \E t \in DOMAIN loop : LoopCheckBeforeCall(t)
    \/ \E t \in DOMAIN loop : StartExternalCall(t)
    \/ \E t \in DOMAIN loop : \E ok \in Outcomes(t) : ExternalCallReturns(t, ok)
    \/ \E j \in DOMAIN cache.requests : AnalysisSavesAndReturns(j)

SpecCache == Init /\ [][NextCache]_vars

----------------------------------------------------------------------------
(* Properties of the Task Registry *)

\* where every work loop stands; a step of a loop changes it, a registry
\* call does not
LoopAt == [t \in DOMAIN loop |-> <<loop[t].pc, loop[t].i>>]

\* the step taken is a call of the cancel endpoint for project_id
IsCancelStep(project_id) ==
    /\ hist'.call.op = "cancel"
    /\ hist'.call.project_id = project_id
    /\ LoopAt' = LoopAt

\* the step taken is a create_task for project_id
IsCreateStep(project_id) ==
    /\ hist'.call.op = "create"
    /\ hist'.call.project_id = project_id
    /\ NewTaskId' = NewTaskId + 1

\* C1: once is_cancelled(t) is true for a task it is true after every later
\* create, cancel-by-project and cancel-by-task-id, and so is its status
\* 'cancelled': no operation moves a task from cancelled back to active.
C1_CancelledStaysCancelled ==
    [][\A t \in TaskIds :
          /\ is_cancelled(t) => t \in cancelled_tasks'
          /\ active_tasks[t].status = "cancelled"
                => (t \in DOMAIN active_tasks' /\ active_tasks'[t].status = "cancelled")
      ]_vars

\* a task cancelled earlier is still cancelled after a later task was
\* cancelled at its creation
C1_Witness ==
    \E t \in cancelled_tasks, u \in hist.precancelled :
        t < u /\ u \in cancelled_tasks /\ active_tasks[t].status = "cancelled"

\* C2: with one create(p) and a cancel_by_project(p), in either order, the
\* created task ends up cancelled: whenever a cancel was called for p and p
\* has exactly one task, that task is cancelled.
C2_CreateCancelRace ==
    \A p \in ProjectIds :
        (p \in hist.cancel_seen /\ Cardinality(TasksOf(p)) = 1)
            => \A t \in TasksOf(p) : is_cancelled(t) /\ active_tasks[t].status = "cancelled"

\* the cancel ran first: it found no task, and the only task of p was created
\* cancelled from the pending entry
C2_Witness ==
    \E p \in ProjectIds :
        /\ Cardinality(TasksOf(p)) = 1
        /\ TasksOf(p) \subseteq hist.precancelled
        /\ hist.last[p].op = "create"
        /\ p \notin pending_cancel_projects

\* C3: when cancel_by_project(p) found zero active tasks and the next
\* operation on p is create(p), the created task is cancelled when create
\* returns.
C3_CancelThenCreate ==
    [][\A p \in ProjectIds :
          (hist.last[p].op = "cancel" /\ hist.last[p].count = 0 /\ IsCreateStep(p))
             => /\ hist'.call.task_id \in cancelled_tasks'
                /\ active_tasks'[hist'.call.task_id].status = "cancelled"
      ]_vars

\* a create that followed a cancel which had found nothing, among older tasks
C3_Witness ==
    \E p \in ProjectIds :
        /\ hist.call = Called("create", p, hist.last[p].task)
        /\ hist.last[p].cancelled
        /\ hist.call.task_id > 1
        /\ is_cancelled(hist.call.task_id)

\* C4: the create(p) that finds the pending entry removes it, so a second
\* create(p) with no cancel_by_project(p) in between returns an active task.
C4_PendingConsumedOnce ==
    [][\A p \in ProjectIds :
          /\ IsCreateStep(p) => p \notin pending_cancel_projects'
          /\ (hist.last[p].op = "create" /\ IsCreateStep(p))
                => /\ hist'.call.task_id \notin cancelled_tasks'
                   /\ active_tasks'[hist'.call.task_id].status = "active"
      ]_vars

\* the first create of p was cancelled at creation, the second is active
C4_Witness ==
    \E p \in ProjectIds : \E t \in hist.precancelled :
        /\ active_tasks[t].project_id = p
        /\ hist.last[p].op = "create"
        /\ hist.last[p].task > t
        /\ ~hist.last[p].cancelled
        /\ ~is_cancelled(hist.last[p].task)
        /\ \A u \in TasksOf(p) : u = t \/ u = hist.last[p].task

\* C6 as claimed: cancelling a project with one active task returns 1, and a
\* second cancel right after it returns 0 and adds no pending entry.
C6_SecondCancelAddsNoPending ==
    [][\A p \in ProjectIds :
          /\ (IsCancelStep(p) /\ Cardinality(ActiveTasksOf(p)) = 1)
                => response'.cancelled_count = 1
          /\ (hist.call = Called("cancel", p, 0) /\ hist.last[p].count = 1
                /\ IsCancelStep(p))
                => /\ response'.cancelled_count = 0
                   /\ pending_cancel_projects' = pending_cancel_projects
      ]_vars

\* C7 as claimed: a cancel_by_project(p) that directly follows a
\* cancel_by_project(p) leaves every task's status and the pending set as
\* they were.
C7_CancelIdempotent ==
    [][\A p \in ProjectIds :
          (hist.call = Called("cancel", p, 0) /\ IsCancelStep(p))
             => UNCHANGED registryVars
      ]_vars

\* C8: cancel_by_project(p) marks every active task of p cancelled, and the
\* endpoint answers status "success", the project id it was called with and
\* the number of tasks marked.
C8_CancelMarksAllAndCounts ==
    [][\A p \in ProjectIds :
          IsCancelStep(p)
             => /\ \A t \in ActiveTasksOf(p) :
                      t \in cancelled_tasks' /\ active_tasks'[t].status = "cancelled"
                /\ cancelled_tasks' \ cancelled_tasks = ActiveTasksOf(p)
                /\ response'.status = "success"
                /\ response'.project_id = p
                /\ response'.cancelled_count = Cardinality(ActiveTasksOf(p))
      ]_vars

\* a cancel that marked two tasks and answered 2
C8_Witness ==
    /\ hist.call.op = "cancel"
    /\ response.op = "cancel"
    /\ response.cancelled_count = 2
    /\ Cardinality({t \in TasksOf(response.project_id) : is_cancelled(t)}) >= 2

\* C9: cancel_by_project(p) adds p to the pending set exactly when it marked
\* no task; when it marks a task the pending set stays as it was.
C9_PendingIffNoneMarked ==
    [][\A p \in ProjectIds :
          IsCancelStep(p)
             => LET marked == cancelled_tasks' \ cancelled_tasks
                IN  /\ (marked = {}) => pending_cancel_projects' = pending_cancel_projects \cup {p}
                    /\ (marked # {}) => pending_cancel_projects' = pending_cancel_projects
                    /\ (p \in pending_cancel_projects') <=> (marked = {})
      ]_vars

\* a cancel that marked a task of one project while another project's
\* pending entry stayed
C9_Witness ==
    \E p \in ProjectIds :
        /\ hist.call = Called("cancel", p, 0)
        /\ hist.last[p].count >= 1
        /\ p \notin pending_cancel_projects
        /\ pending_cancel_projects # {}

----------------------------------------------------------------------------
(* Properties of the work loop *)

\* C5 as claimed: an analysis run during which no cancel is called for its
\* task or project processes all N of its resources, whatever creates and
\* cancels came before it: when its loop has ended, it was not stopped, an
\* external call was started for every index and it reports N/N.
C5_UncancelledRunProcessesAll ==
    \A t \in DOMAIN loop :
        (loop[t].pc = "done" /\ ~loop[t].cancel_during)
            => /\ ~loop[t].stopped
               /\ loop[t].calls = 0..(loop[t].total - 1)
               /\ loop[t].report = <<loop[t].total, loop[t].total>>

\* C10: if the cancelled flag of a task is set when the loop has taken up k
\* resources (before it processes index k), the loop makes no
\* external call for index k or a later one, records at most k results, and
\* once ended it reports "processed k/N"; on the 101 VMs with the flag set
\* after item 1 completed that is 1/101.
C10_StopsAtIndexK ==
    \A t \in DOMAIN loop :
        LET k == loop[t].flag_at
        IN  k >= 0
              => /\ loop[t].calls \subseteq 0..(k - 1)
                 /\ loop[t].results \subseteq 0..(k - 1)
                 /\ Cardinality(loop[t].results) <= k
                 /\ loop[t].pc = "done" => loop[t].report = <<k, loop[t].total>>

\* the documented scenario: 101 VMs, the flag set after item 1 completed,
\* the loop stopped with "Processed 1/101" and one external call made
C10_Witness ==
    \E t \in DOMAIN loop :
        /\ loop[t].total = ScenarioResources
        /\ loop[t].flag_at = 1
        /\ loop[t].pc = "done"
        /\ loop[t].stopped
        /\ loop[t].calls = {0}
        /\ loop[t].report = <<1, ScenarioResources>>

----------------------------------------------------------------------------
(* Properties of the work loop, continued *)

\* the task was cancelled before its work made its first check: created
\* cancelled, or marked while the loop stood before the check of index 0
CancelledAtStart(t) ==
    \/ loop[t].flag_pc = "start"
    \/ loop[t].flag_pc = "check" /\ loop[t].flag_at = 0

\* C11: a task already cancelled when its work starts makes no external
\* call: the multi-resource loop stops and reports 0/N, the single-resource
\* function returns None.
C11_CancelledAtStartMakesNoCall ==
    \A t \in DOMAIN loop :
        CancelledAtStart(t)
            => /\ loop[t].calls = {}
               /\ loop[t].call_log = <<>>
               /\ loop[t].pc = "done"
                     => /\ loop[t].report = <<0, loop[t].total>>
                        /\ loop[t].total > 0 => loop[t].stopped
                        /\ loop[t].single => Returned(t).kind = "none"
                        /\ Returned(t).items = {}

\* a single-resource run whose task was created cancelled has returned None
C11_Witness ==
    \E t \in DOMAIN loop :
        /\ loop[t].single
        /\ loop[t].flag_pc = "start"
        /\ loop[t].pc = "done"
        /\ loop[t].stopped
        /\ Returned(t).kind = "none"

\* C12: once a cancel has marked a running task cancelled, its loop starts
\* at most one more external call, wherever the loop stood between its
\* checks and calls when the cancel came.
C12_AtMostOneCallAfterCancel ==
    \A t \in DOMAIN loop :
        loop[t].flag_pc \in {"check", "precall", "checked", "call"}
            => /\ Cardinality(loop[t].calls) <= loop[t].calls_at_flag + 1
               /\ Len(loop[t].call_log) <= loop[t].calls_at_flag + 1

\* the cancel came between the second check and the call: that one call was
\* started after the flag was set, and the loop stopped at its next check
C12_Witness ==
    \E t \in DOMAIN loop :
        /\ loop[t].flag_pc = "checked"
        /\ Cardinality(loop[t].calls) = loop[t].calls_at_flag + 1
        /\ loop[t].pc = "done"
        /\ loop[t].stopped
        /\ loop[t].i < loop[t].total

\* C13: a task marked cancelled while its loop is running makes the loop
\* end: it ends at its next check (or had no resource left), and between
\* the marking and the end at most the call about to start is started.
C13_CancelledLoopStops ==
    \A t \in 1..MaxTasks :
        (t \in DOMAIN loop /\ t \in cancelled_tasks /\ loop[t].pc # "done")
            ~> (/\ t \in DOMAIN loop
                /\ loop[t].pc = "done"
                /\ loop[t].stopped \/ loop[t].i = loop[t].total
                /\ Len(loop[t].call_log) <= loop[t].calls_at_flag + 1)

\* a loop marked while a call was in flight, with a resource still to go,
\* has stopped
C13_Witness ==
    \E t \in DOMAIN loop :
        /\ loop[t].flag_pc = "call"
        /\ loop[t].pc = "done"
        /\ loop[t].stopped
        /\ loop[t].i < loop[t].total
        /\ loop[t].report = <<loop[t].i, loop[t].total>>

\* C14: an error of the external call for one resource does not end the
\* loop: a run whose task is never cancelled starts exactly one call for
\* each of its N resources, in order and without a retry, whichever calls
\* fail, and the resources whose call failed are not in what it returns.
C14_ErrorsSkipResource ==
    \A t \in DOMAIN loop :
        (loop[t].pc = "done" /\ loop[t].flag_at = -1 /\ ~loop[t].single)
            => /\ loop[t].call_log = [j \in 1..loop[t].total |-> j - 1]
               /\ loop[t].report = <<loop[t].total, loop[t].total>>
               /\ ~loop[t].stopped
               /\ loop[t].results \cup loop[t].failed = 0..(loop[t].total - 1)
               /\ Returned(t).kind = "array"
               /\ Returned(t).items = (0..(loop[t].total - 1)) \ loop[t].failed

\* a finished run of two resources: the call of the first failed, the call
\* of the second was made and its recommendation returned
C14_Witness ==
    \E t \in DOMAIN loop :
        /\ loop[t].pc = "done"
        /\ loop[t].flag_at = -1
        /\ loop[t].total = 2
        /\ loop[t].failed = {0}
        /\ loop[t].call_log = <<0, 1>>
        /\ Returned(t).items = {1}

\* C15: a cancellation is answered with a partial result, not an error: a
\* multi-resource run stopped after k resources returns an array with
\* recommendations of those k resources only, and a run for one resource id
\* never returns an array: it returns the single recommendation object when
\* its call produced one.
C15_CancelReturnsPartialResult ==
    \A t \in DOMAIN loop :
        loop[t].pc = "done"
            => /\ (loop[t].stopped /\ ~loop[t].single)
                     => /\ Returned(t).kind = "array"
                        /\ Returned(t).items = loop[t].results
                        /\ Returned(t).items \subseteq 0..(loop[t].report[1] - 1)
               /\ loop[t].stopped => Returned(t).kind # "error"
               /\ loop[t].single
                     => /\ Returned(t).kind # "array"
                        /\ 0 \in loop[t].results => Returned(t).kind = "object"

\* a run of two resources cancelled after the first was processed returned
\* the array with the first recommendation
C15_Witness ==
    \E t \in DOMAIN loop :
        /\ ~loop[t].single
        /\ loop[t].pc = "done"
        /\ loop[t].stopped
        /\ loop[t].report = <<1, 2>>
        /\ Returned(t) = [kind |-> "array", items |-> {0}]

----------------------------------------------------------------------------
(* Properties of the recommendations page *)

\* the step taken is the continuation of handleFetch for the resolved request r
IsResolveStep(r) ==
    /\ r \in DOMAIN net.fetches
    /\ net.fetches[r].state = "pending"
    /\ net'.fetches[r].state = "resolved"

\* a Reset was clicked after the request r was started
ResetAfter(r) ==
    \E k \in DOMAIN net.cancels :
        net.cancels[k].by = "reset" /\ net.cancels[k].gen > net.fetches[r].gen

\* C16: the answer of an analysis request started at generation g changes
\* recommendations and currentTaskIdRef only if generationRef is still g
\* when it arrives; an answer to a request started before a Reset click
\* changes neither.
C16_StaleResponseIgnored ==
    [][\A r \in 1..MaxClicks :
          IsResolveStep(r)
             => /\ (page.generationRef # net.fetches[r].gen \/ ResetAfter(r))
                      => /\ page'.recommendations = page.recommendations
                         /\ page'.currentTaskIdRef = page.currentTaskIdRef
                /\ (page'.recommendations # page.recommendations
                       \/ page'.currentTaskIdRef # page.currentTaskIdRef)
                      => page.generationRef = net.fetches[r].gen
      ]_vars

\* a request started before a Reset click resolved after handleReset had
\* cleared the UI: its answer was dropped and the UI is still empty
C16_Witness ==
    \E r \in DOMAIN net.fetches, k \in DOMAIN net.cancels :
        /\ net.fetches[r].state = "resolved"
        /\ ~net.fetches[r].applied
        /\ net.cancels[k].by = "reset"
        /\ net.cancels[k].cleared
        /\ net.cancels[k].gen = net.fetches[r].gen + 1
        /\ page.generationRef = net.cancels[k].gen
        /\ page.recommendations = <<>>
        /\ page.currentTaskIdRef = NoTaskId

\* C17: generationRef never decreases: a call of handleFetch adds exactly 1
\* to it, also when the call fails validation, a call of handleReset adds
\* exactly 1, and no other step changes it.
C17_GenerationCountsCalls ==
    [][/\ page'.generationRef >= page.generationRef
       /\ page'.generationRef - page.generationRef
             = (net'.fetch_calls - net.fetch_calls) + (net'.reset_calls - net.reset_calls)
       /\ page'.generationRef = net'.fetch_calls + net'.reset_calls
      ]_vars

\* a handleFetch that failed validation (no date range) and a handleReset
\* have both been counted
C17_Witness ==
    /\ net.fetch_calls = 1
    /\ net.reset_calls = 1
    /\ net.fetches = <<>>
    /\ page.error = "Please select a date range."
    /\ page.generationRef = 2

\* the step taken settles the cancel request k
IsCancelSettleStep(k) ==
    /\ k \in DOMAIN net.cancels
    /\ net.cancels[k].state = "pending"
    /\ net'.cancels[k].state # "pending"

\* C18: when the cancel request of a Reset fails, with a network error or a
\* non-2xx status, handleReset still runs to its end: recommendations is
\* empty, currentIndex 0, error null and the filters are the defaults; a
\* failed cancel request never puts a message into error.
C18_ResetSurvivesCancelFailure ==
    [][\A k \in 1..MaxClicks :
          (IsCancelSettleStep(k)
              /\ net'.cancels[k].state \in {"http_error", "network_error"})
             => IF net.cancels[k].by = "reset"
                THEN /\ page'.recommendations = <<>>
                     /\ page'.currentIndex = 0
                     /\ page'.error = NoError
                     /\ page'.filters = DefaultFilters
                     /\ net'.cancels[k].cleared
                ELSE page'.error = page.error
      ]_vars

\* a Reset clicked on a page showing recommendations under changed filters;
\* its cancel request failed (backend offline) and the page is cleared
C18_Witness ==
    \E k \in DOMAIN net.cancels, r \in DOMAIN net.fetches :
        /\ net.cancels[k].by = "reset"
        /\ net.cancels[k].state = "network_error"
        /\ net.cancels[k].cleared
        /\ net.fetches[r].applied
        /\ net.fetches[r].gen < net.cancels[k].gen
        /\ page.recommendations = <<>>
        /\ page.error = NoError
        /\ page.filters = DefaultFilters
        /\ page.generationRef = net.cancels[k].gen

\* the step taken is a call of handleReset
IsResetClickStep == net'.reset_calls = net.reset_calls + 1

\* C19: handleReset increments the generation and sets isLoading false in
\* the step that sends the cancel request, and that step leaves the
\* filters, recommendations, currentIndex and error as they were; they are
\* cleared by the step in which the cancel request settles.
C19_ResetClearsAfterCancelSettles ==
    [][/\ IsResetClickStep
            => /\ page'.generationRef = page.generationRef + 1
               /\ page'.isLoading = FALSE
               /\ Len(net'.cancels) = Len(net.cancels) + 1
               /\ net'.cancels[Len(net'.cancels)] =
                      [by |-> "reset", gen |-> page'.generationRef,
                       state |-> "pending", cleared |-> FALSE]
               /\ page'.filters = page.filters
               /\ page'.recommendations = page.recommendations
               /\ page'.currentIndex = page.currentIndex
               /\ page'.error = page.error
       /\ \A k \in DOMAIN net.cancels :
             (net'.cancels[k].cleared /\ ~net.cancels[k].cleared)
                => /\ IsCancelSettleStep(k)
                   /\ page'.filters = DefaultFilters
                   /\ page'.recommendations = <<>>
                   /\ page'.currentIndex = 0
                   /\ page'.error = NoError
      ]_vars

\* between the click and the settling of the cancel request: the generation
\* is incremented and isLoading false, the recommendations and the changed
\* filters still there
C19_Witness ==
    \E k \in DOMAIN net.cancels :
        /\ net.cancels[k].by = "reset"
        /\ net.cancels[k].state = "pending"
        /\ page.generationRef = net.cancels[k].gen
        /\ ~page.isLoading
        /\ page.recommendations # <<>>
        /\ page.filters # DefaultFilters

\* C20: handleReset does not hang: after every Reset click the handler
\* reaches its end and the UI has been cleared, whether the cancel request
\* is answered with success, with an error status, or not at all because the
\* backend is offline.
C20_ResetCompletes ==
    \A k \in 1..MaxClicks :
        (k \in DOMAIN net.cancels /\ net.cancels[k].by = "reset"
            /\ net.cancels[k].state = "pending")
          ~> (k \in DOMAIN net.cancels /\ net.cancels[k].state \in RequestOutcomes
                /\ net.cancels[k].cleared)

\* three Reset clicks whose cancel requests ended in the three ways, each
\* handler at its end
C20_Witness ==
    /\ Len(net.cancels) = 3
    /\ \A k \in DOMAIN net.cancels : net.cancels[k].by = "reset" /\ net.cancels[k].cleared
    /\ {net.cancels[k].state : k \in DOMAIN net.cancels} = RequestOutcomes

----------------------------------------------------------------------------
(* Properties of the cache *)

\* the step taken is the arrival of an analysis request
IsAnalysisRequestStep == Len(cache'.requests) = Len(cache.requests) + 1

\* the step taken is the endpoint returning from the work of request j
IsReturnStep(j) ==
    /\ cache.requests[j].state = "calling"
    /\ cache'.requests[j].state # "calling"

\* what the lookup of an arriving request does: with the key in the cache the
\* request is a hit answered with the stored output, no LLM call is made and
\* no work starts for its task; without it the request is a miss and the
\* work starts
LookupAtArrival ==
    IsAnalysisRequestStep
       => LET new == cache'.requests[Len(cache'.requests)]
          IN  /\ new.task = NewTaskId
              /\ new.task \in DOMAIN active_tasks'
              /\ IF new.hash_key \in DOMAIN cache.table
                 THEN /\ new.hit
                      /\ new.state = "done"
                      /\ new.llm_calls = 0
                      /\ new.output = cache.table[new.hash_key]
                      /\ cache'.table = cache.table
                      /\ new.task \notin DOMAIN loop'
                 ELSE /\ ~new.hit
                      /\ new.state = "calling"
                      /\ new.task \in DOMAIN loop'

\* C21: a request whose hash key is in the cache is answered with the stored
\* output and makes no LLM call; a request whose key is not calls the LLM,
\* and when it returns its result is in the cache under that key, where it
\* stays, so the same request sent afterwards is a hit. It fails: the task
\* of a miss is created before the lookup and is created cancelled when its
\* project has a pending cancel, or is cancelled while the work runs; the
\* work then returns at a cancellation check, with no LLM call and no
\* recommendation when it had not reached its first call.
C21_CacheHitAndMiss ==
    [][/\ LookupAtArrival
       /\ \A j \in DOMAIN cache.requests :
             IsReturnStep(j)
                => /\ cache'.requests[j].llm_calls >= 1
                   /\ cache.requests[j].hash_key \in DOMAIN cache'.table
                   /\ cache'.table[cache.requests[j].hash_key] = cache'.requests[j].output
                   /\ cache'.requests[j].output # NoOutput
       /\ DOMAIN cache.table \subseteq DOMAIN cache'.table
      ]_vars

----------------------------------------------------------------------------
(* Frame of the two cancel operations *)

\* C22: cancel_by_project(p) changes neither the status nor the cancelled
\* flag of a task of another project (or of no project), and no other
\* project enters or leaves the pending-cancellation set.
C22_CancelLeavesOtherProjects ==
    [][\A p \in ProjectIds :
          IsCancelStep(p)
             => /\ \A t \in TaskIds :
                      active_tasks[t].project_id # p
                         => /\ active_tasks'[t] = active_tasks[t]
                            /\ is_cancelled(t)' = is_cancelled(t)
                /\ \A q \in ProjectIds \ {p} :
                      (q \in pending_cancel_projects') = (q \in pending_cancel_projects)
      ]_vars

\* a cancel for one project that marked its task while an active task of
\* another project stayed active, and a cancel for one project that found
\* nothing while another project's pending entry stayed
C22_Witness ==
    \E p \in ProjectIds :
        /\ hist.call = Called("cancel", p, 0)
        /\ \/ /\ hist.last[p].count >= 1
              /\ \E t \in TaskIds : /\ active_tasks[t].project_id \in ProjectIds \ {p}
                                    /\ active_tasks[t].status = "active"
                                    /\ ~is_cancelled(t)
           \/ /\ hist.last[p].count = 0
              /\ \E t \in TaskIds : /\ active_tasks[t].project_id \in ProjectIds \ {p}
                                    /\ active_tasks[t].status = "active"
                                    /\ ~is_cancelled(t)
              /\ p \in pending_cancel_projects
    /\ \E t \in TaskIds : is_cancelled(t)

\* the step taken is a cancel of task_id by its id
IsCancelTaskStep(task_id) ==
    /\ hist'.call = Called("cancel_task", "", task_id)
    /\ TaskIds' = TaskIds

\* C23: cancelling one task by id marks that task cancelled and no other:
\* every other task keeps its status and its flag, and the
\* pending-cancellation set is unchanged.
C23_CancelTaskMarksOnlyThatTask ==
    [][\A id \in TaskIds :
          IsCancelTaskStep(id)
             => /\ is_cancelled(id)'
                /\ active_tasks'[id].status = "cancelled"
                /\ \A t \in TaskIds \ {id} :
                      /\ active_tasks'[t] = active_tasks[t]
                      /\ is_cancelled(t)' = is_cancelled(t)
                /\ pending_cancel_projects' = pending_cancel_projects
      ]_vars

\* a task cancelled by its id while another task of the same project is
\* still active and a pending entry of the other project is still there
C23_Witness ==
    /\ hist.call.op = "cancel_task"
    /\ is_cancelled(hist.call.task_id)
    /\ \E t \in TaskIds \ {hist.call.task_id} :
          /\ active_tasks[t].project_id = active_tasks[hist.call.task_id].project_id
          /\ active_tasks[t].status = "active"
          /\ ~is_cancelled(t)
    /\ pending_cancel_projects # {}

----------------------------------------------------------------------------
(* The page and the backend together *)

\* C24: the cancel request that a handleFetch fires for the previous task
\* never marks cancelled the task the backend creates for the analysis
\* request of that same handleFetch. It fails: the cancel is by project, so
\* when the analysis request reaches the backend first its task is among the
\* project's active tasks and the cancel marks it.
C24_FetchCancelSparesOwnTask ==
    \A k \in DOMAIN net.cancel_arrived, r \in DOMAIN net.arrived :
        (net.cancels[k].by = "fetch" /\ net.cancels[k].gen = net.fetches[r].gen)
           => net.arrived[r] \notin net.cancel_arrived[k]

----------------------------------------------------------------------------
(* The settling of analysis requests on the page *)

\* the step taken is the request r throwing into handleFetch
IsRejectStep(r) ==
    /\ r \in DOMAIN net.fetches
    /\ net.fetches[r].state = "pending"
    /\ net'.fetches[r].state = "rejected"

\* C25: the error thrown by an analysis request started at generation g
\* sets the error state exactly when generationRef is still g as it is
\* caught; the error of a superseded request leaves error as it was.
C25_StaleErrorIgnored ==
    [][\A r \in 1..MaxClicks :
          IsRejectStep(r)
             => /\ page.generationRef # net.fetches[r].gen
                      => page'.error = page.error
                /\ page.generationRef = net.fetches[r].gen
                      => page'.error = "Request failed"
      ]_vars

\* a superseded request has thrown and was ignored, and the newer request
\* has thrown at the current generation and its error is shown
C25_Witness ==
    \E r, r2 \in DOMAIN net.fetches :
        /\ net.fetches[r].state = "rejected"
        /\ ~net.fetches[r].applied
        /\ net.fetches[r].gen < net.fetches[r2].gen
        /\ net.fetches[r2].state = "rejected"
        /\ net.fetches[r2].applied
        /\ page.error = "Request failed"

\* C26: the settling of a superseded analysis request, resolved or thrown,
\* leaves isLoading as it was; the settling of the request of the current
\* generation sets it to false.
C26_StaleSettleKeepsLoading ==
    [][\A r \in 1..MaxClicks :
          (IsResolveStep(r) \/ IsRejectStep(r))
             => /\ page.generationRef # net.fetches[r].gen
                      => page'.isLoading = page.isLoading
                /\ page.generationRef = net.fetches[r].gen
                      => ~page'.isLoading
      ]_vars

\* an older request has settled unapplied while the newer request is still
\* in flight and the loading indicator still on
C26_Witness ==
    \E r, r2 \in DOMAIN net.fetches :
        /\ net.fetches[r].state \in {"resolved", "rejected"}
        /\ ~net.fetches[r].applied
        /\ net.fetches[r].gen < net.fetches[r2].gen
        /\ net.fetches[r2].state = "pending"
        /\ net.fetches[r2].gen = page.generationRef
        /\ page.isLoading

\* an analysis request started at the current generation is in flight
CurrentRequestInFlight ==
    \E r \in DOMAIN net.fetches :
       /\ net.fetches[r].state = "pending"
       /\ net.fetches[r].gen = page.generationRef

\* the step taken settles an analysis request started at the current
\* generation
IsCurrentRequestSettling ==
    \E r \in DOMAIN net.fetches :
       /\ net.fetches[r].state = "pending"
       /\ net.fetches[r].gen = page.generationRef
       /\ net'.fetches[r].state # "pending"

\* C27: with handleFetch run through the Run Analysis button (disabled
\* while loading or while a filter of the validation is missing) and
\* handleReset callable at any time, whenever isLoading is true an analysis
\* request started at the current generation is in flight; the step in
\* which that request settles switches the indicator off; and, every
\* analysis request settling at some time, an indicator that is on is
\* switched off later.
C27_LoadingHasCurrentRequest ==
    /\ [](page.isLoading => CurrentRequestInFlight)
    /\ [][(page.isLoading /\ IsCurrentRequestSettling) => ~page'.isLoading]_vars
    /\ (page.isLoading ~> ~page.isLoading)

\* the indicator is on for the second analysis, its request in flight, and
\* the user has meanwhile chosen the custom range and picked no date: the
\* filters would fail handleFetch's validation, and the button is disabled
C27_Witness ==
    /\ page.isLoading
    /\ net.fetch_calls = 2
    /\ page.generationRef = 2
    /\ net.fetches[1].state # "pending"
    /\ net.fetches[2].state = "pending"
    /\ net.fetches[2].gen = page.generationRef
    /\ page.filters.dateRangePreset = "custom"
    /\ page.filters.startDate = NoDate
    /\ RunAnalysisDisabled

\* the step taken is a call of handleFetch
IsFetchCallStep == net'.fetch_calls = net.fetch_calls + 1

\* C28: a handleFetch called with an empty resourceType or without a start
\* or an end date sends no analysis request and no cancel request, sets the
\* error message, empties recommendations, and leaves isLoading and
\* currentTaskIdRef as they were.
C28_InvalidFiltersSendNothing ==
    [][(/\ IsFetchCallStep
        /\ \/ page.filters.resourceType = ""
           \/ page.filters.startDate = NoDate
           \/ page.filters.endDate = NoDate)
          => /\ net'.fetches = net.fetches
             /\ net'.cancels = net.cancels
             /\ page'.error = IF page.filters.resourceType = ""
                              THEN "Please select a Resource Type to analyze."
                              ELSE "Please select a date range."
             /\ page'.recommendations = <<>>
             /\ page'.isLoading = page.isLoading
             /\ page'.currentTaskIdRef = page.currentTaskIdRef
      ]_vars

\* an analysis has answered with a task id; then handleFetch was called
\* with no resource type, and with a start date and no end date: both calls
\* returned at the validation, the task id is still held, no cancel request
\* and no second analysis request was sent, and the indicator is off as it
\* was
C28_Witness ==
    /\ net.fetch_calls = 3
    /\ net.invalid = {"type", "end"}
    /\ Len(net.fetches) = 1
    /\ net.fetches[1].gen = 1
    /\ net.fetches[1].applied
    /\ net.cancels = <<>>
    /\ page.currentTaskIdRef # NoTaskId
    /\ ~page.isLoading
    /\ page.error = "Please select a date range."
    /\ page.recommendations = <<>>
    /\ page.generationRef = 3

\* the step taken is handleReset clearing the UI after its cancel request k
IsResetClearStep(k) ==
    /\ k \in DOMAIN net.cancels
    /\ ~net.cancels[k].cleared
    /\ net'.cancels[k].cleared

\* C29: the clearing that handleReset performs after its cancel request
\* settles leaves the recommendations and the task id of an analysis
\* started after that Reset click as they are. It fails: the clearing is
\* unconditional, so an analysis started and answered while the cancel
\* request was pending loses both.
C29_ResetSparesLaterAnalysis ==
    [][\A k \in 1..MaxClicks :
          (/\ IsResetClearStep(k)
           /\ \E r \in DOMAIN net.fetches :
                 /\ net.fetches[r].gen > net.cancels[k].gen
                 /\ net.fetches[r].gen = page.generationRef
                 /\ net.fetches[r].state = "resolved"
                 /\ net.fetches[r].applied)
             => /\ page'.recommendations = page.recommendations
                /\ page'.currentTaskIdRef = page.currentTaskIdRef
      ]_vars

----------------------------------------------------------------------------
(* The carousel *)

\* C30: whenever recommendations is non-empty, currentIndex is one of its
\* indices 0..length-1, in every interleaving of the carousel's timer
\* callbacks with the handlers of the page. It fails: a callback set
\* before a Run Analysis click runs after handleFetch has set currentIndex
\* to 0, and the answer, a shorter list, leaves currentIndex past its end.
C30_CurrentIndexInRange ==
    page.recommendations # <<>>
       => page.currentIndex \in 0..(Len(page.recommendations) - 1)

----------------------------------------------------------------------------
(* The filters *)

\* C31: in every reachable state whose dateRangePreset is not 'custom',
\* startDate and endDate are both defined, so the Run Analysis button is
\* enabled when nothing is loading. It fails in the initial state, and
\* handleReset sets the same filters: the preset is 'last_month' and both
\* dates are undefined.
C31_PresetHasDates ==
    page.filters.dateRangePreset # "custom"
       => /\ page.filters.startDate # NoDate
          /\ page.filters.endDate # NoDate
          /\ (~page.isLoading => ~RunAnalysisDisabled)

\* the step taken is the preset Select changing the preset to preset: the
\* Select's handler sets the filters and nothing else, it sends no request
\* and settles none (handleReset's return to the default filters comes with
\* the settling of its cancel request)
IsPresetStep(preset) ==
    /\ page.filters.dateRangePreset # preset
    /\ page'.filters.dateRangePreset = preset
    /\ net' = net

\* C32: a change of the preset to a non-custom preset sets startDate and
\* endDate to the range computed for that preset, a change to 'custom' sets
\* both to undefined; resourceType, resourceId and resourceIdEnabled are
\* left as they were.
C32_PresetSetsItsRange ==
    [][\A preset \in DateRangePresets :
          IsPresetStep(preset)
             => /\ preset # "custom"
                      => /\ page'.filters.startDate = calculateDateRange(preset).startDate
                         /\ page'.filters.endDate = calculateDateRange(preset).endDate
                         /\ page'.filters.startDate # NoDate
                         /\ page'.filters.endDate # NoDate
                /\ preset = "custom"
                      => /\ page'.filters.startDate = NoDate
                         /\ page'.filters.endDate = NoDate
                /\ page'.filters.resourceType = page.filters.resourceType
                /\ page'.filters.resourceId = page.filters.resourceId
                /\ page'.filters.resourceIdEnabled = page.filters.resourceIdEnabled
      ]_vars

\* a resource id is selected and the preset 'last_year' has its range; and
\* 'custom' was chosen after that and cleared the dates
C32_Witness ==
    /\ page.filters.resourceIdEnabled
    /\ page.filters.resourceId # ""
    /\ \/ /\ page.filters.dateRangePreset = "last_year"
          /\ page.filters.startDate = Today - 365
          /\ page.filters.endDate = Today
       \/ /\ page.filters.dateRangePreset = "custom"
          /\ page.filters.startDate = NoDate
          /\ page.filters.endDate = NoDate

\* the step taken is a pick in a calendar: a date changes while the preset
\* stays 'custom'
IsDatePickStep ==
    /\ page.filters.dateRangePreset = "custom"
    /\ page'.filters.dateRangePreset = "custom"
    /\ \/ page'.filters.startDate \notin {page.filters.startDate, NoDate}
       \/ page'.filters.endDate \notin {page.filters.endDate, NoDate}

\* C33: with the custom range no pick sets startDate or endDate to a day
\* after today, and no custom range ever holds such a day.
C33_NoFutureDates ==
    [][(IsDatePickStep
          => /\ page'.filters.startDate <= Today
             /\ page'.filters.endDate <= Today)
       /\ (page'.filters.dateRangePreset = "custom"
             => /\ page'.filters.startDate <= Today
                /\ page'.filters.endDate <= Today)
      ]_vars

\* a custom range that ends today, picked in the calendars
C33_Witness ==
    /\ page.filters.dateRangePreset = "custom"
    /\ page.filters.startDate = Today
    /\ page.filters.endDate = Today

\* C34: whenever startDate and endDate are both defined, startDate is not
\* after endDate. It fails: the start-date calendar only disables the days
\* after today, so a start date after the chosen end date can be picked.
C34_StartNotAfterEnd ==
    (page.filters.startDate # NoDate /\ page.filters.endDate # NoDate)
       => page.filters.startDate <= page.filters.endDate

\* the dates and the preset are left as they were
DatesUnchanged ==
    /\ page'.filters.startDate = page.filters.startDate
    /\ page'.filters.endDate = page.filters.endDate
    /\ page'.filters.dateRangePreset = page.filters.dateRangePreset

\* C35: in every reachable state a toggle that is off means no resource id
\* is set; switching the toggle off clears resourceId, changing the resource
\* type clears resourceId, and both leave the date fields as they were.
C35_ToggleOffMeansNoResourceId ==
    /\ (~page.filters.resourceIdEnabled => page.filters.resourceId = "")
    /\ [][/\ ~page'.filters.resourceIdEnabled => page'.filters.resourceId = ""
          /\ (page.filters.resourceIdEnabled /\ ~page'.filters.resourceIdEnabled)
                => DatesUnchanged
          /\ page'.filters.resourceType # page.filters.resourceType
                => /\ page'.filters.resourceId = ""
                   /\ DatesUnchanged
         ]_vars

\* with the toggle on a resource id was chosen from the loaded list, and the
\* change of the resource type that sent the resource-ID request now in
\* flight cleared it; the dates are still there
C35_Witness ==
    /\ \E j \in DOMAIN net.id_fetches :
          /\ net.id_fetches[j].cleared
          /\ net.id_fetches[j].type = page.filters.resourceType
    /\ page.filters.resourceIdEnabled
    /\ page.filters.resourceId = ""
    /\ page.filters.startDate # NoDate
    /\ page.filters.endDate # NoDate

\* C36: the list of the resource-ID dropdown holds only ids of the selected
\* resource type and is empty while the toggle is off. It fails: the effect
\* has no cleanup, so the answer to a request made for the previous type, or
\* made before the toggle was switched off, is stored when it arrives.
C36_ResourceIdsOfSelectedType ==
    /\ page.resourceIds \subseteq ResourceIdsOf(page.filters.resourceType)
    /\ ~page.filters.resourceIdEnabled => page.resourceIds = {}

====
